---- MODULE Spec2Model ----
(***************************************************************************)
(* Model of the Weibull wind-analysis scripts: the DistribucionWeibull     *)
(* class (distribucion_weibull.py) and the parameter estimators built on   *)
(* it.                                                                     *)
(*                                                                         *)
(* Numbers are binary floating point values with the exponent range of     *)
(* float64 (largest finite value below 2^1024, smallest positive value     *)
(* 2^-1074) and a mantissa of MantBits bits, rounded to nearest-even, with *)
(* +Inf, -Inf and NaN.  Overflow gives Inf, underflow gives 0, invalid     *)
(* operations give NaN, as numpy does (warnings are not exceptions).       *)
(* Zero carries no sign and results below 2^-1074 are flushed to zero.     *)
(***************************************************************************)
EXTENDS Integers, Sequences, FiniteSets, TLC

\* ------------------------------------------------------------------------
\* Floating point arithmetic (numpy float64 / Python float)
\* ------------------------------------------------------------------------

\* Number of mantissa bits kept by the model's floats.
MantBits == 12

\* Exponent of the largest finite float64 (values are below 2^(EMax+1)).
EMax == 1023

\* Exponent of the smallest positive float64, 2^-1074.
EMin == -1074

\* Fractional bits of the fixed-point working precision of log2 and 2^x.
FracBits == 14

Q == 2^FracBits

\* The element of a one-element set: The({e : v \in {x}}) is e with v bound
\* to the value of x.
The(S) == CHOOSE v \in S : TRUE

Zero == [kind |-> "fin", sgn |-> 1, m |-> 0, e |-> 0]

NaN == [kind |-> "nan", sgn |-> 1, m |-> 0, e |-> 0]

Inf(s) == [kind |-> "inf", sgn |-> s, m |-> 0, e |-> 0]

PosInf == Inf(1)

NegInf == Inf(-1)

IsNaN(a) == a.kind = "nan"

IsInf(a) == a.kind = "inf"

IsFinite(a) == a.kind = "fin"

IsZero(a) == a.kind = "fin" /\ a.m = 0

RECURSIVE BitLen(_)
BitLen(n) == IF n = 0 THEN 0 ELSE 1 + BitLen(n \div 2)

\* RoundM for a mantissa M of n > 0 bits.
RoundBits(s, M, e, n) ==
    LET sh == n - MantBits
        q0 == IF sh <= 0 THEN M * 2^(-sh) ELSE M \div 2^sh
        r == IF sh <= 0 THEN 0 ELSE M % 2^sh
        half == IF sh <= 0 THEN 1 ELSE 2^(sh - 1)
        up == sh > 0 /\ (r > half \/ (r = half /\ q0 % 2 = 1))
        q1 == IF up THEN q0 + 1 ELSE q0
        carry == q1 = 2^MantBits
        q == IF carry THEN 2^(MantBits - 1) ELSE q1
        ee == e + sh + (IF carry THEN 1 ELSE 0)
        top == ee + MantBits - 1
    IN IF top > EMax THEN Inf(s)
       ELSE IF top < EMin THEN Zero
       ELSE [kind |-> "fin", sgn |-> s, m |-> q, e |-> ee]

\* The float nearest to s * M * 2^e (0 <= M < 2^30), ties to even.
RoundM(s0, M0, e0) ==
    The({IF M = 0 THEN Zero
         ELSE The({RoundBits(s, M, e, n) : n \in {BitLen(M)}}) :
            s \in {s0}, M \in {M0}, e \in {e0}})

AbsI(i) == IF i < 0 THEN -i ELSE i

SgnI(i) == IF i < 0 THEN -1 ELSE 1

FromInt(i) == RoundM(SgnI(i), AbsI(i), 0)

One == FromInt(1)

Two == FromInt(2)

\* -1, 0 or 1: the sign of a value that is not NaN.
Sign(a) == IF IsZero(a) THEN 0 ELSE a.sgn

Neg(x) ==
    The({IF IsNaN(a) \/ IsZero(a) THEN a ELSE [a EXCEPT !.sgn = -a.sgn] :
            a \in {x}})

Abs(x) == The({IF IsNaN(a) THEN a ELSE [a EXCEPT !.sgn = 1] : a \in {x}})

Mul(x, y) ==
    The({IF IsNaN(a) \/ IsNaN(b) THEN NaN
         ELSE IF IsInf(a) \/ IsInf(b)
              THEN IF IsZero(a) \/ IsZero(b) THEN NaN ELSE Inf(a.sgn * b.sgn)
              ELSE RoundM(a.sgn * b.sgn, a.m * b.m, a.e + b.e) :
            a \in {x}, b \in {y}})

\* numpy division: x/0 is +-Inf, 0/0 is NaN, no exception.
Div(x, y) ==
    The({IF IsNaN(a) \/ IsNaN(b) THEN NaN
         ELSE IF IsInf(a) THEN (IF IsInf(b) THEN NaN ELSE Inf(a.sgn * b.sgn))
         ELSE IF IsInf(b) THEN Zero
         ELSE IF IsZero(b) THEN (IF IsZero(a) THEN NaN ELSE Inf(a.sgn))
         ELSE IF IsZero(a) THEN Zero
         ELSE The({RoundM(a.sgn * b.sgn,
                          2 * (num \div b.m) + (IF num % b.m = 0 THEN 0 ELSE 1),
                          a.e - b.e - MantBits - 3) :
                     num \in {a.m * 2^(MantBits + 2)}}) :
            a \in {x}, b \in {y}})

\* a + b for finite non-zero hi, lo with hi.e >= lo.e.
AddAligned(hi, lo) ==
    The({RoundM(SgnI(M), AbsI(M),
                IF hi.e - lo.e > MantBits + 2 THEN hi.e - MantBits - 2
                ELSE lo.e) :
            M \in {IF hi.e - lo.e > MantBits + 2
                   THEN hi.sgn * hi.m * 2^(MantBits + 2) + lo.sgn
                   ELSE hi.sgn * hi.m * 2^(hi.e - lo.e) + lo.sgn * lo.m}})

Add(x, y) ==
    The({IF IsNaN(a) \/ IsNaN(b) THEN NaN
         ELSE IF IsInf(a) THEN (IF IsInf(b) /\ a.sgn # b.sgn THEN NaN ELSE a)
         ELSE IF IsInf(b) THEN b
         ELSE IF IsZero(a) THEN b
         ELSE IF IsZero(b) THEN a
         ELSE IF a.e >= b.e THEN AddAligned(a, b)
         ELSE AddAligned(b, a) :
            a \in {x}, b \in {y}})

Sub(x, y) == Add(x, Neg(y))

\* a < b for values that are not NaN.
LtV(a, b) ==
    IF IsInf(a) THEN a.sgn = -1 /\ ~(IsInf(b) /\ b.sgn = -1)
    ELSE IF IsInf(b) THEN b.sgn = 1
    ELSE IF Sign(a) # Sign(b) THEN Sign(a) < Sign(b)
    ELSE IF Sign(a) = 0 THEN FALSE
    ELSE IF Sign(a) = 1 THEN a.e < b.e \/ (a.e = b.e /\ a.m < b.m)
    ELSE a.e > b.e \/ (a.e = b.e /\ a.m > b.m)

\* a < b; FALSE when either is NaN.
Lt(x, y) ==
    \E a \in {x}, b \in {y} : ~IsNaN(a) /\ ~IsNaN(b) /\ LtV(a, b)

\* a == b; FALSE when either is NaN.
Eq(x, y) == \E a \in {x}, b \in {y} : ~IsNaN(a) /\ ~IsNaN(b) /\ a = b

Leq(x, y) ==
    \E a \in {x}, b \in {y} :
        ~IsNaN(a) /\ ~IsNaN(b) /\ (a = b \/ LtV(a, b))

Gt(x, y) == Lt(y, x)

Geq(x, y) == Leq(y, x)

\* The float nearest to the rational n / d (d > 0).
FromRat(n, d) == Div(FromInt(n), FromInt(d))

\* ------------------------------------------------------------------------
\* Library functions: np.log, np.exp, np.power, np.sqrt, scipy gamma
\* ------------------------------------------------------------------------

\* The i fraction bits of log2(y / Q) below acc, for Q <= y < 2Q.
RECURSIVE L2Frac(_, _, _)
L2Frac(y, i, acc) ==
    IF i = 0 THEN acc
    ELSE The({IF sq >= 2 * Q
              THEN L2Frac(sq \div 2, i - 1, acc + 2^(i - 1))
              ELSE L2Frac(sq, i - 1, acc) :
                 sq \in {(y * y) \div Q}})

\* log2 of a finite positive float, as an integer multiple of 1/Q.
Log2Fix(a) ==
    (a.e + MantBits - 1) * Q
        + L2Frac(a.m * 2^(FracBits - MantBits + 1), FracBits, 0)

\* floor((A * 4096 + B) * 2^s), or -1 when it is 2^28 or more.
ScaleSum(A, B, s) ==
    LET ba == IF A = 0 THEN 0 ELSE BitLen(A) + 12
        bb == BitLen(B)
        est == (IF ba > bb THEN ba ELSE bb) + 1
    IN IF est + s > 29 THEN -1
       ELSE IF s >= 0 THEN (A * 4096 + B) * 2^s
       ELSE IF -s >= 12
            THEN (IF -s - 12 >= 30 THEN 0
                  ELSE (A + B \div 4096) \div 2^(-s - 12))
            ELSE A * 2^(12 + s) + B \div 2^(-s)

\* floor(m * L * 2^s) for 0 <= m < 2^13, 0 <= L < 2^25, or -1 when it is
\* 2^28 or more.
ScaleMul(m0, L0, s0) ==
    The({ScaleSum(m * (L \div 4096), m * (L % 4096), s) :
            m \in {m0}, L \in {L0}, s \in {s0}})

\* Q * e^(z / Q) from the terms i.. of the exponential series, 0 <= z < Q.
RECURSIVE ExpSeries(_, _)
ExpSeries(z, i) ==
    IF i > 8 THEN Q ELSE Q + (z * ExpSeries(z, i + 1)) \div (i * Q)

\* 2^(s * T / Q) for a magnitude T >= 0 (-1: too large) and a sign s.
Exp2Fix(s0, T0) ==
    The({IF T = -1 \/ T >= 1100 * Q THEN (IF s = 1 THEN PosInf ELSE Zero)
         ELSE The({RoundM(1, ExpSeries(z, 1), (s * T) \div Q - FracBits) :
                     z \in {(((s * T) % Q) * 11357) \div Q}}) :
            s \in {s0}, T \in {T0}})

\* np.exp
Exp(x) ==
    The({IF IsNaN(a) THEN NaN
         ELSE IF IsInf(a) THEN (IF a.sgn = 1 THEN PosInf ELSE Zero)
         ELSE IF IsZero(a) THEN One
         ELSE Exp2Fix(a.sgn, ScaleMul(a.m, 1512775, a.e - 6)) :
            a \in {x}})

Ln2 == RoundM(1, 11629080, -24)

\* np.log: log(0) is -Inf, log of a negative number is NaN.
Log(x) ==
    The({IF IsNaN(a) THEN NaN
         ELSE IF IsZero(a) THEN NegInf
         ELSE IF a.sgn = -1 THEN NaN
         ELSE IF IsInf(a) THEN PosInf
         ELSE The({Mul(RoundM(SgnI(L), AbsI(L), -FracBits), Ln2) :
                     L \in {Log2Fix(a)}}) :
            a \in {x}})

IsInteger(a) ==
    IsFinite(a) /\ (a.m = 0 \/ a.e >= 0
                    \/ (-a.e < MantBits /\ a.m % 2^(-a.e) = 0))

IsOddInteger(a) ==
    /\ IsInteger(a)
    /\ a.m # 0
    /\ \/ (a.e = 0 /\ a.m % 2 = 1)
       \/ (a.e < 0 /\ (a.m \div 2^(-a.e)) % 2 = 1)

\* x^y for finite x > 0 and finite y # 0.
PowPos(x, y) ==
    IF x = One THEN One
    ELSE IF y = One THEN x
    ELSE The({Exp2Fix(y.sgn * SgnI(L), ScaleMul(y.m, AbsI(L), y.e)) :
                L \in {Log2Fix(x)}})

\* np.power on float64 (C pow): never raises.
Pow(x0, y0) ==
    The({IF IsZero(y) THEN One
         ELSE IF x = One THEN One
         ELSE IF IsNaN(x) \/ IsNaN(y) THEN NaN
         ELSE IF IsZero(x) THEN (IF y.sgn = 1 THEN Zero ELSE PosInf)
         ELSE IF IsInf(y)
              THEN (IF Abs(x) = One THEN One
                    ELSE IF Lt(Abs(x), One) = (y.sgn = 1) THEN Zero
                    ELSE PosInf)
         ELSE IF IsInf(x)
              THEN (IF y.sgn = 1
                    THEN (IF x.sgn = -1 /\ IsOddInteger(y) THEN NegInf
                          ELSE PosInf)
                    ELSE Zero)
         ELSE IF x.sgn = 1 THEN PowPos(x, y)
         ELSE IF ~IsInteger(y) THEN NaN
         ELSE IF IsOddInteger(y) THEN Neg(PowPos(Abs(x), y))
         ELSE PowPos(Abs(x), y) :
            x \in {x0}, y \in {y0}})

\* The largest r' >= r with r'^2 <= N, trying the bits b, b/2, .., 1.
RECURSIVE ISqrtB(_, _, _)
ISqrtB(N, r, b) ==
    IF b = 0 THEN r
    ELSE IF (r + b) * (r + b) <= N THEN ISqrtB(N, r + b, b \div 2)
    ELSE ISqrtB(N, r, b \div 2)

\* sqrt(m * 2^e) for m > 0 and even e.
SqrtEven(m, e) ==
    The({RoundM(1, 2 * r + (IF r * r = m * Q THEN 0 ELSE 1),
                (e - FracBits) \div 2 - 1) :
            r \in {ISqrtB(m * Q, 0, Q)}})

\* np.sqrt
Sqrt(x) ==
    The({IF IsNaN(a) THEN NaN
         ELSE IF IsZero(a) THEN Zero
         ELSE IF a.sgn = -1 THEN NaN
         ELSE IF IsInf(a) THEN PosInf
         ELSE IF a.e % 2 = 1 THEN SqrtEven(2 * a.m, a.e - 1)
         ELSE SqrtEven(a.m, a.e) :
            a \in {x}})

\* Coefficients b1..b8 (in millionths) of the polynomial for Gamma(1 + x),
\* 0 <= x <= 1.
GammaCoef ==
    <<-577192, 988206, -897057, 918207, -756704, 482199, -193528, 35868>>

RECURSIVE GammaHorner(_, _)
GammaHorner(x, i) ==
    IF i > Len(GammaCoef) THEN Zero
    ELSE Add(FromRat(GammaCoef[i], 1000000), Mul(x, GammaHorner(x, i + 1)))

\* Gamma(z) for 1 <= z <= 172: the polynomial on [1, 2), and
\* Gamma(z) = (z - 1) * Gamma(z - 1) above.
RECURSIVE GammaRec(_)
GammaRec(z) ==
    The({IF Lt(z, Two) THEN Add(One, Mul(x, GammaHorner(x, 1)))
         ELSE Mul(x, GammaRec(x)) :
            x \in {Sub(z, One)}})

\* scipy.special.gamma for arguments z >= 1 (every argument the scripts
\* pass is 1 + 1/k or 1 + 2/k with k > 0); Gamma overflows past 171.6.
gamma(z0) ==
    The({IF IsNaN(z) THEN NaN
         ELSE IF IsInf(z) THEN (IF z.sgn = 1 THEN PosInf ELSE NaN)
         ELSE IF Lt(z, One) THEN NaN
         ELSE IF Gt(z, FromInt(172)) THEN PosInf
         ELSE GammaRec(z) :
            z \in {z0}})

\* ------------------------------------------------------------------------
\* DistribucionWeibull (distribucion_weibull.py)
\* ------------------------------------------------------------------------

\* The absence of a value (None, or a call that raised).
Nada == [kind |-> "none", sgn |-> 1, m |-> 0, e |-> 0]

\* Outcome of a call: the exception raised ("none" when it returned) and
\* the value returned.
Ok(v) == [err |-> "none", val |-> v]

Raise(x) == [err |-> x, val |-> Nada]

\* __init__ with the shape test written k < 0, which lets k = 0 through.
init_k_negativo(k, lambda_param) ==
    IF Lt(k, Zero) THEN Raise("ValueError")
    ELSE IF Leq(lambda_param, Zero) THEN Raise("ValueError")
    ELSE Ok([k |-> k, lambda_param |-> lambda_param])

\* __init__: the exception raised, or the instance's fields.
init(k, lambda_param) ==
    IF Leq(k, Zero) THEN Raise("ValueError")
    ELSE IF Leq(lambda_param, Zero) THEN Raise("ValueError")
    ELSE Ok([k |-> k, lambda_param |-> lambda_param])

\* pdf without the mask x >= 0: the formula is applied to every input.
pdf_sin_mascara(self, x) ==
    Mul(Mul(Div(self.k, self.lambda_param),
            Pow(Div(x, self.lambda_param), Sub(self.k, One))),
        Exp(Neg(Pow(Div(x, self.lambda_param), self.k))))

pdf(self, x) ==
    IF ~Geq(x, Zero) THEN Zero
    ELSE LET term1 == Div(self.k, self.lambda_param)
             term2 == Pow(Div(x, self.lambda_param), Sub(self.k, One))
             term3 == Exp(Neg(Pow(Div(x, self.lambda_param), self.k)))
         IN Mul(Mul(term1, term2), term3)

\* np.maximum: a NaN operand gives NaN.
maximum(a, b) ==
    IF IsNaN(a) \/ IsNaN(b) THEN NaN ELSE IF Lt(a, b) THEN b ELSE a

\* The floor 1e-10 the equation scripts put under the speeds.
VelocidadMinima == Mul(FromRat(1, 100000), FromRat(1, 100000))

\* EcuacionesWeibullViento.ecuacion_1_pdf, and the method of the same name
\* of AnalisisWeibullColombia: the speed is raised to 1e-10 at least and the
\* formula is applied to every input.
ecuacion_1_pdf(v, k, c) ==
    The({Mul(Mul(Div(k, c), Pow(Div(w, c), Sub(k, One))),
             Exp(Neg(Pow(Div(w, c), k)))) :
            w \in {maximum(v, VelocidadMinima)}})

\* cdf without the mask x >= 0.
cdf_sin_mascara(self, x) ==
    Sub(One, Exp(Neg(Pow(Div(x, self.lambda_param), self.k))))

\* cdf with the sign of the exponent lost: 1 - e^((x/lambda)^k).
cdf_exponente_positivo(self, x) ==
    IF ~Geq(x, Zero) THEN Zero
    ELSE Sub(One, Exp(Pow(Div(x, self.lambda_param), self.k)))

cdf(self, x) ==
    IF ~Geq(x, Zero) THEN Zero
    ELSE Sub(One, Exp(Neg(Pow(Div(x, self.lambda_param), self.k))))

\* survival_function from the docstring formula e^(-(x/lambda)^k) instead of
\* 1 - cdf.
survival_function_formula(self, x) ==
    Exp(Neg(Pow(Div(x, self.lambda_param), self.k)))

survival_function(self, x) == Sub(One, cdf(self, x))

\* hazard_function by the naive division f(v) / S(v).
hazard_function_division(self, x) ==
    Div(pdf(self, x), Sub(One, cdf(self, x)))

hazard_function(self, x) ==
    IF ~Gt(x, Zero) THEN Zero
    ELSE Mul(Div(self.k, self.lambda_param),
             Pow(Div(x, self.lambda_param), Sub(self.k, One)))

media(self) == Mul(self.lambda_param, gamma(Add(One, Div(One, self.k))))

varianza(self) ==
    LET gamma1 == gamma(Add(One, Div(One, self.k)))
        gamma2 == gamma(Add(One, Div(Two, self.k)))
    IN Mul(Pow(self.lambda_param, Two), Sub(gamma2, Pow(gamma1, Two)))

desviacion_estandar(self) == Sqrt(varianza(self))

\* moda without the test k <= 1.
moda_sin_caso_k(self) ==
    Mul(self.lambda_param,
        Pow(Div(Sub(self.k, One), self.k), Div(One, self.k)))

moda(self) ==
    IF Leq(self.k, One) THEN Zero
    ELSE Mul(self.lambda_param,
             Pow(Div(Sub(self.k, One), self.k), Div(One, self.k)))

\* mediana with the exponent k instead of 1/k.
mediana_exponente_k(self) == Mul(self.lambda_param, Pow(Log(Two), self.k))

mediana(self) == Mul(self.lambda_param, Pow(Log(Two), Div(One, self.k)))

\* percentil with log(p) in place of log(1 - p).
percentil_log_p(self, p) ==
    IF ~(Leq(Zero, p) /\ Leq(p, One)) THEN Raise("ValueError")
    ELSE Ok(Mul(self.lambda_param,
                Pow(Neg(Log(p)), Div(One, self.k))))

\* percentil with the upper end of the range excluded.
percentil_sin_extremo(self, p) ==
    IF ~(Leq(Zero, p) /\ Lt(p, One)) THEN Raise("ValueError")
    ELSE Ok(Mul(self.lambda_param,
                Pow(Neg(Log(Sub(One, p))), Div(One, self.k))))

\* percentil without the power 1/k: lambda * (-ln(1 - p)).
percentil_sin_raiz(self, p) ==
    IF ~(Leq(Zero, p) /\ Leq(p, One)) THEN Raise("ValueError")
    ELSE Ok(Mul(self.lambda_param, Neg(Log(Sub(One, p)))))

percentil(self, p) ==
    IF ~(Leq(Zero, p) /\ Leq(p, One)) THEN Raise("ValueError")
    ELSE Ok(Mul(self.lambda_param,
                Pow(Neg(Log(Sub(One, p))), Div(One, self.k))))

\* ------------------------------------------------------------------------
\* Sampling and the methods that build on the others
\* ------------------------------------------------------------------------

\* An optional argument: Ninguno is Python's None, Algo(v) a given value.
Ninguno == <<>>

Algo(v) == <<v>>

\* Number of states of the process-wide generator np.random (the Mersenne
\* Twister has 2^19937 - 1).
RngMod == 4

RngVals == 0..(RngMod - 1)

\* np.random.seed(s): the state becomes a function of the seed alone.
seed(s) == s % RngMod

\* The uniform number in [0, 1) the generator gives in state r.
Uniforme(r) == FromRat(r, RngMod)

\* The state after i draws from state r.
Avanzar(r, i) == (r + i) % RngMod

\* weibull_min(c=k, scale=lambda_param).rvs(size=n) with the process-wide
\* generator in state r: n uniform draws put through the inverse of the cdf.
\* The array returned and the state the generator is left in.
rvs(self, n, r) ==
    [val |-> [i \in 1..n |->
                 Mul(self.lambda_param,
                     Pow(Neg(Log(Sub(One, Uniforme(Avanzar(r, i - 1))))),
                         Div(One, self.k)))],
     rng |-> Avanzar(r, n)]

\* generar_muestras without the call of np.random.seed.
generar_muestras_sin_semilla(self, n, random_state, r) == rvs(self, n, r)

\* DistribucionWeibull.generar_muestras, with the generator in state r.
generar_muestras(self, n, random_state, r) ==
    rvs(self, n, IF random_state # Ninguno THEN seed(random_state[1]) ELSE r)

\* DistribucionWeibull.resumen_estadistico
resumen_estadistico(self) ==
    [k |-> self.k, lambda_param |-> self.lambda_param,
     media |-> media(self), mediana |-> mediana(self), moda |-> moda(self),
     varianza |-> varianza(self),
     desviacion_estandar |-> desviacion_estandar(self),
     Q1 |-> percentil(self, FromRat(1, 4)).val,
     Q2 |-> percentil(self, FromRat(1, 2)).val,
     Q3 |-> percentil(self, FromRat(3, 4)).val,
     P90 |-> percentil(self, FromRat(9, 10)).val,
     P95 |-> percentil(self, FromRat(19, 20)).val]

\* The default k_valores and lambda_valores of the comparison plot.
KValoresDefecto == <<FromRat(1, 2), One, FromRat(3, 2), Two, FromInt(3)>>

LambdaValoresDefecto == <<FromRat(1, 2), One, Two>>

\* The temporary instances the comparison plot builds, in order.
Temporales(self, kv, lv) ==
    [i \in 1..Len(kv) |-> init(kv[i], self.lambda_param)]
        \o [j \in 1..Len(lv) |-> init(self.k, lv[j])]

\* The instance after the comparison plot, and whether a temporary
\* instance was refused.
Comparacion(self, t) ==
    [err |-> IF \E i \in 1..Len(t) : t[i].err # "none"
             THEN "ValueError" ELSE "none",
     val |-> Nada, self |-> self, temporales |-> t]

\* The comparison plot with self.k = k in place of a temporary instance.
graficar_comparacion_parametros_asigna(self, k_valores, lambda_valores) ==
    \* the loop over k_valores assigns to self.k, so the instance is left with
    \* the last of them
    LET kv == IF k_valores = Ninguno THEN KValoresDefecto ELSE k_valores[1]
        lv == IF lambda_valores = Ninguno THEN LambdaValoresDefecto
              ELSE lambda_valores[1]
    IN Comparacion(IF Len(kv) > 0 THEN [self EXCEPT !.k = kv[Len(kv)]]
                   ELSE self,
                   Temporales(self, kv, lv))

\* DistribucionWeibull.graficar_comparacion_parametros (the drawing itself
\* is left out).
graficar_comparacion_parametros(self, k_valores, lambda_valores) ==
    LET kv == IF k_valores = Ninguno THEN KValoresDefecto ELSE k_valores[1]
        lv == IF lambda_valores = Ninguno THEN LambdaValoresDefecto
              ELSE lambda_valores[1]
    IN Comparacion(self, Temporales(self, kv, lv))

\* ------------------------------------------------------------------------
\* Parameter estimators
\* ------------------------------------------------------------------------

\* The sum of the first n elements, added left to right.
RECURSIVE SumTo(_, _)
SumTo(xs, n) == IF n = 0 THEN Zero ELSE Add(SumTo(xs, n - 1), xs[n])

\* One of the eight running sums numpy keeps for an array of 8 elements or
\* more: xs[i] and the elements 8, 16, ... places before it.
RECURSIVE Acumulador(_, _)
Acumulador(xs, i) ==
    IF i <= 8 THEN xs[i] ELSE Add(Acumulador(xs, i - 8), xs[i])

\* The eight running sums over the first lim elements, added in pairs.
Bloque(xs, lim) ==
    Add(Add(Add(Acumulador(xs, lim - 7), Acumulador(xs, lim - 6)),
            Add(Acumulador(xs, lim - 5), Acumulador(xs, lim - 4))),
        Add(Add(Acumulador(xs, lim - 3), Acumulador(xs, lim - 2)),
            Add(Acumulador(xs, lim - 1), Acumulador(xs, lim))))

\* base plus the elements after the first lim, up to the n-th, one by one.
RECURSIVE SumDesde(_, _, _, _)
SumDesde(xs, base, lim, n) ==
    IF n <= lim THEN base ELSE Add(SumDesde(xs, base, lim, n - 1), xs[n])

SumBloques(xs, lim) ==
    The({SumDesde(xs, b, lim, Len(xs)) : b \in {Bloque(xs, lim)}})

\* np.add.reduce: left to right below 8 elements, eight running sums above.
Sum(xs) ==
    IF Len(xs) < 8 THEN SumTo(xs, Len(xs))
    ELSE SumBloques(xs, Len(xs) - (Len(xs) % 8))

\* np.mean: NaN for an empty array.
Mean(xs) == Div(Sum(xs), FromInt(Len(xs)))

\* The squared deviations from mu.
SqDev(xs, mu) ==
    [i \in 1..Len(xs) |-> The({Mul(d, d) : d \in {Sub(xs[i], mu)}})]

\* np.std(xs, ddof=1): NaN for fewer than two observations.
Std1(xs) ==
    The({Sqrt(Div(Sum(sq),
                  FromInt(IF Len(xs) - 1 > 0 THEN Len(xs) - 1 ELSE 0))) :
            sq \in {SqDev(xs, Mean(xs))}})

\* The exponent -1.09 of equation 3.
ExpK == FromRat(-109, 100)

\* Equation 4 with the mean multiplied by Gamma(1 + 1/k) instead of divided.
ParametrosDe_producto(v_media, sigma) ==
    The({[err |-> "none", v_media |-> v_media, sigma |-> sigma,
          coef_variacion |-> Div(sigma, v_media), k |-> k,
          c |-> Mul(v_media, gamma(Add(One, Div(One, k))))] :
            k \in {Pow(Div(sigma, v_media), ExpK)}})

\* AnalisisVientoWeibull.calcular_parametros_weibull
\* Equations 3 and 4 from the sample mean and standard deviation.
ParametrosDe(v_media, sigma) ==
    The({[err |-> "none", v_media |-> v_media, sigma |-> sigma,
          coef_variacion |-> Div(sigma, v_media), k |-> k,
          c |-> Div(v_media, gamma(Add(One, Div(One, k))))] :
            k \in {Pow(Div(sigma, v_media), ExpK)}})

\* AnalisisVientoWeibull.calcular_parametros_weibull
calcular_parametros_weibull(velocidades) ==
    The({ParametrosDe(v_media, sigma) :
            v_media \in {Mean(velocidades)}, sigma \in {Std1(velocidades)}})

\* EcuacionesWeibullViento.ecuacion_3_parametro_k on Python floats, where
\* division by zero raises.
ecuacion_3_parametro_k(v_promedio, sigma) ==
    IF IsZero(v_promedio) THEN Raise("ZeroDivisionError")
    ELSE Ok(Pow(Div(sigma, v_promedio), ExpK))

\* EcuacionesWeibullViento.ecuacion_4_parametro_c
ecuacion_4_parametro_c(v_promedio, k) ==
    Div(v_promedio, gamma(Add(One, Div(One, k))))

\* Equation 5 without the case k <= 1.
ecuacion_5_sin_caso_k(k, c) ==
    Mul(c, Pow(Div(Sub(k, One), k), Div(One, k)))

\* EcuacionesWeibullViento.ecuacion_5_velocidad_mas_probable
ecuacion_5_velocidad_mas_probable(k, c) ==
    IF Leq(k, One) THEN Zero
    ELSE Mul(c, Pow(Div(Sub(k, One), k), Div(One, k)))

\* EcuacionesWeibullViento.ecuacion_6_velocidad_maxima_energia
ecuacion_6_velocidad_maxima_energia(k, c) ==
    Mul(c, Pow(Div(Add(k, Two), k), Div(One, k)))

\* AnalisisWeibullColombia.ecuacion_5_velocidad_mas_probable
colombia_ecuacion_5_velocidad_mas_probable(k, c) ==
    IF Leq(k, One) THEN Zero
    ELSE Mul(c, Pow(Div(Sub(k, One), k), Div(One, k)))

\* The error threshold of the verification message, 0.01 %.
UmbralVerificacion == FromRat(1, 100)

\* The verification step written as an assertion: it raises when the
\* relative error is not below the threshold.
verificacion_estricta(v_promedio, k, c) ==
    The({[err |-> IF Lt(e, UmbralVerificacion) THEN "none"
                  ELSE "AssertionError",
          v_media_teorica |-> Mul(c, gamma(Add(One, Div(One, k)))),
          error_relativo |-> e] :
            e \in {Mul(Div(Abs(Sub(Mul(c, gamma(Add(One, Div(One, k)))),
                                   v_promedio)),
                           v_promedio),
                       FromInt(100))}})

\* The verification step of calcular_parametros_weibull_paso_a_paso and of
\* aplicar_ecuaciones_municipio: the theoretical mean c * Gamma(1 + 1/k)
\* and its relative error, in percent, against the sample mean.
verificacion(v_promedio, k, c) ==
    The({[err |-> "none", v_media_teorica |-> t,
          error_relativo |-> Mul(Div(Abs(Sub(t, v_promedio)), v_promedio),
                                 FromInt(100))] :
            t \in {Mul(c, gamma(Add(One, Div(One, k))))}})

\* What a call that raised before equation 3 leaves.
SinParametros(err, v_promedio, sigma) ==
    [err |-> err, v_media |-> v_promedio, sigma |-> sigma,
     coef_variacion |-> Nada, k |-> Nada, c |-> Nada, error_relativo |-> Nada]

\* Equation 4 and the verification step, for the k of equation 3.
EscalaVerificada(v_promedio, sigma, k) ==
    The({The({[err |-> ver.err, v_media |-> v_promedio, sigma |-> sigma,
               coef_variacion |-> Div(sigma, v_promedio), k |-> k, c |-> c,
               error_relativo |-> ver.error_relativo] :
                 ver \in {verificacion(v_promedio, k, c)}}) :
            c \in {Div(v_promedio, gamma(Add(One, Div(One, k))))}})

\* Equations 3 and 4 on Python floats and then the verification step.
ParametrosVerificados(v_promedio, sigma) ==
    IF IsZero(v_promedio)
    THEN SinParametros("ZeroDivisionError", v_promedio, sigma)
    ELSE The({EscalaVerificada(v_promedio, sigma, k) :
                 k \in {Pow(Div(sigma, v_promedio), ExpK)}})

\* AnalisisDetalladoWeibull.calcular_parametros_weibull_paso_a_paso, from
\* the speeds of the municipality on.
calcular_parametros_weibull_paso_a_paso(velocidades) ==
    The({ParametrosVerificados(v_promedio, sigma) :
            v_promedio \in {Mean(velocidades)}, sigma \in {Std1(velocidades)}})

\* Fewest records aplicar_ecuaciones_municipio accepts.
MinRegistros == 30

\* AnalisisWeibullColombia.aplicar_ecuaciones_municipio, from the speeds of
\* the municipality on.
aplicar_ecuaciones_municipio(velocidades) ==
    IF Len(velocidades) < MinRegistros
    THEN SinParametros("ValueError", Nada, Nada)
    ELSE The({ParametrosVerificados(v_promedio, sigma) :
                 v_promedio \in {Mean(velocidades)},
                 sigma \in {Std1(velocidades)}})

\* AnalisisVientoWeibull.calcular_velocidades_caracteristicas
calcular_velocidades_caracteristicas(k, c) ==
    [v_mp |-> IF Gt(k, One)
              THEN Mul(c, Pow(Div(Sub(k, One), k), Div(One, k)))
              ELSE Zero,
     v_MAXE |-> Mul(c, Pow(Div(Add(k, Two), k), Div(One, k))),
     v_mediana |-> Mul(c, Pow(Log(Two), Div(One, k))),
     v_media_teorica |-> Mul(c, gamma(Add(One, Div(One, k))))]

\* What procesar_datos_ciudad computed when it raised: nothing.
SinResultados(err) ==
    [err |-> err, k |-> Nada, c |-> Nada, v_mp |-> Nada, v_MAXE |-> Nada,
     v_media_teorica |-> Nada]

\* Equations 4, 5 and 6 and the theoretical mean, for the k of equation 3.
ResultadosDe(v_promedio, k) ==
    The({[err |-> "none", k |-> k, c |-> c,
          v_mp |-> ecuacion_5_velocidad_mas_probable(k, c),
          v_MAXE |-> ecuacion_6_velocidad_maxima_energia(k, c),
          v_media_teorica |-> Mul(c, gamma(Add(One, Div(One, k))))] :
            c \in {ecuacion_4_parametro_c(v_promedio, k)}})

\* The mean and deviation as Python floats, the report of sigma / v_promedio
\* (ZeroDivisionError for a zero mean) and the equations.
ResultadosCon(v_promedio, sigma) ==
    IF IsZero(v_promedio) THEN SinResultados("ZeroDivisionError")
    ELSE ResultadosDe(v_promedio,
                      ecuacion_3_parametro_k(v_promedio, sigma).val)

\* EcuacionesWeibullViento.procesar_datos_ciudad, up to the dictionary of
\* results: np.min raises ValueError for an empty array.
procesar_datos_ciudad(velocidades) ==
    IF Len(velocidades) = 0 THEN SinResultados("ValueError")
    ELSE The({ResultadosCon(v_promedio, sigma) :
                 v_promedio \in {Mean(velocidades)},
                 sigma \in {Std1(velocidades)}})

\* No entry of datos_procesados.
SinEntrada ==
    [hay |-> FALSE, k |-> Nada, c |-> Nada, v_mp |-> Nada, v_MAXE |-> Nada,
     v_media_teorica |-> Nada]

\* The entry of datos_procesados built from the results.
Entrada(r) ==
    [hay |-> TRUE, k |-> r.k, c |-> r.c, v_mp |-> r.v_mp,
     v_MAXE |-> r.v_MAXE, v_media_teorica |-> r.v_media_teorica]

\* The assignment written as setdefault: an entry already there is kept.
Almacenar_si_falta(dp, nombre_ciudad, resultados) ==
    IF dp[nombre_ciudad].hay THEN dp
    ELSE [dp EXCEPT ![nombre_ciudad] = resultados]

\* self.datos_procesados[nombre_ciudad] = resultados
Almacenar(dp, nombre_ciudad, resultados) ==
    [dp EXCEPT ![nombre_ciudad] = resultados]

\* ------------------------------------------------------------------------
\* Inputs
\* ------------------------------------------------------------------------

Rat(q) == FromRat(q[1], q[2])

KGrid == <<<<2, 1>>, <<1, 1>>, <<10, 1>>, <<1, 2>>, <<3, 2>>, <<3, 1>>, <<1, 10>>>>

NumK == 5

LambdaGrid == <<<<1, 1>>, <<15, 2>>, <<2, 1>>, <<10, 1>>>>

NumLambda == 3

XGrid ==
    <<<<1, 10>>, <<1, 2>>, <<1, 1>>, <<2, 1>>, <<5, 1>>, <<15, 1>>, <<28, 1>>,
      <<100, 1>>, <<3, 1>>, <<1, 100>>>>

NumX == 8

PGrid == <<<<1, 10>>, <<1, 4>>, <<1, 2>>, <<3, 4>>, <<9, 10>>, <<99, 100>>, <<1, 3>>>>

NumP == 5

MuestraGrid ==
    <<<<>>, <<0, 0, 0>>, <<5>>, <<-1, -3>>, <<3, 5>>, <<2, 4, 6, 8>>,
      <<5, 5, 5>>, <<1, 2, 3, 10>>, <<7, 8, 9>>>>

NumMuestras == 8

\* Shape and scale arguments given to the constructor.
KVals == {Rat(KGrid[i]) : i \in 1..NumK} \cup {Zero, FromInt(-1), NaN}

LambdaVals == {Rat(LambdaGrid[i]) : i \in 1..NumLambda} \cup {Zero, FromInt(-5)}

\* Points where the distribution functions are evaluated.
XVals == {Rat(XGrid[i]) : i \in 1..NumX} \cup {Zero, FromInt(-1), FromRat(-1, 10)}

\* Probabilities given to percentil.
PVals ==
    {Rat(PGrid[i]) : i \in 1..NumP}
        \cup {Zero, One, FromRat(-1, 10), FromRat(3, 2)}

\* Wind-speed samples given to the estimators.
Muestras ==
    {[j \in 1..Len(MuestraGrid[i]) |-> FromInt(MuestraGrid[i][j])] :
        i \in 1..NumMuestras}

\* ------------------------------------------------------------------------
\* State
\* ------------------------------------------------------------------------

VARIABLES
    modelo,     \* the DistribucionWeibull instance the caller holds
    llamada,    \* the call that has just returned or raised
    estimacion, \* what the estimator returned
    rng,        \* the state of numpy's process-wide random generator
    primera,    \* the first seeded generar_muestras call and what it returned
    detalle,    \* arguments and results of the call that are not one number
    caracteristicas, \* the characteristic speeds a call returned
    datos_procesados, \* EcuacionesWeibullViento.datos_procesados, by city
    ultima,     \* by city, the samples procesar_datos_ciudad was given
    datos,      \* AnalisisVientoWeibull.datos, the DataFrame loaded
    ciudades_seleccionadas, \* AnalisisVientoWeibull.ciudades_seleccionadas
    parametros, \* AnalisisVientoWeibull.parametros, by city
    distribuciones, \* AnalisisVientoWeibull.distribuciones, by city
    resultados, \* AnalisisVientoWeibull.resultados, by city and in order
    producidos, \* procesar_ciudades has stored at least one result
    reporte,    \* what generar_reporte_completo returned
    datos_originales, \* AnalisisWeibullColombia.datos_originales
    resultados_municipios, \* AnalisisWeibullColombia.resultados_municipios
    analizado,  \* the call on the Colombia analyser that has just ended
    registros,  \* the table both importers loaded from the Excel file
    datos_procesados_excel, \* ImportadorDatosExcel.datos_procesados
    extraccion, \* the call on an importer that has just ended
    datos_completos, \* AnalisisDetalladoWeibull.datos: records by municipality
    municipios_seleccionados, \* AnalisisDetalladoWeibull.municipios_seleccionados
    seleccion,  \* where solicitar_municipios_usuario is and what it returned
    arranque    \* the auto_weibull process: its position and what it did

vars == <<modelo, llamada, estimacion, rng, primera, detalle, caracteristicas,
          datos_procesados, ultima, datos, ciudades_seleccionadas, parametros,
          distribuciones, resultados, producidos, reporte,
          datos_originales, resultados_municipios, analizado,
          registros, datos_procesados_excel, extraccion,
          datos_completos, municipios_seleccionados, seleccion, arranque>>

\* The AnalisisWeibullColombia object and the record of its calls.
colombia == <<datos_originales, resultados_municipios, analizado>>

\* The two importers, their table and the record of their calls.
importadores == <<registros, datos_procesados_excel, extraccion>>

\* The AnalisisDetalladoWeibull object and its interactive selection.
interactivo == <<datos_completos, municipios_seleccionados, seleccion>>

\* The objects that orchestrate several municipalities.
orquestacion == <<colombia, importadores, interactivo, arranque>>

\* The AnalisisVientoWeibull object and the record of its results.
analisis == <<datos, ciudades_seleccionadas, parametros, distribuciones,
              resultados, producidos>>

\* The analysis object and the report a call returned.
pipeline == <<analisis, reporte>>

\* The EcuacionesWeibullViento object and the record of its calls.
ecuaciones == <<datos_procesados, ultima>>

\* The columns of the data: the two cities of the example data.
Ciudades == {"Ciudad_Costa", "Ciudad_Interior"}

\* No call of procesar_datos_ciudad for the city yet.
SinUltima ==
    [llamada |-> FALSE, dada |-> <<>>, devolvio |-> FALSE, devuelta |-> <<>>,
     reemplazada |-> FALSE]

\* self.datos_procesados = {} and no call made.
InitCiudades ==
    /\ datos_procesados = [c \in Ciudades |-> SinEntrada]
    /\ ultima = [c \in Ciudades |-> SinUltima]

\* The process-wide generator, the record of sampling calls and the
\* details of the call.
generador == <<rng, primera, detalle>>

SinModelo == [existe |-> FALSE, k |-> Nada, lambda_param |-> Nada]

SinLlamada == [op |-> "none", arg |-> Nada, arg2 |-> Nada, err |-> "none", val |-> Nada]

SinEstimacion ==
    [muestra |-> <<>>, err |-> "none", v_media |-> Nada, sigma |-> Nada,
     coef_variacion |-> Nada, k |-> Nada, c |-> Nada]

Llamada(op, a, b, r) ==
    [op |-> op, arg |-> a, arg2 |-> b, err |-> r.err, val |-> r.val]

SinCaracteristicas ==
    [v_mp |-> Nada, v_MAXE |-> Nada, v_mediana |-> Nada,
     v_media_teorica |-> Nada]

SinDetalle ==
    [n |-> 0, random_state |-> Ninguno, muestras |-> <<>>,
     k_valores |-> Ninguno, lambda_valores |-> Ninguno, resumen |-> Ninguno,
     ciudades |-> <<>>]

SinPrimera ==
    [hay |-> FALSE, otras |-> FALSE, k |-> Nada, lambda_param |-> Nada,
     n |-> 0, random_state |-> Ninguno, val |-> <<>>]

\* The city columns a data file can have.
Columnas == {"Ciudad_Costa", "Ciudad_Interior", "Ciudad_Sierra"}

\* self.datos = None
SinDatos ==
    [cargado |-> FALSE, columnas |-> <<>>,
     valores |-> [c \in Columnas |-> <<>>]]

\* No entry of self.parametros.
SinParametrosCiudad ==
    [hay |-> FALSE, v_media |-> Nada, sigma |-> Nada, coef_variacion |-> Nada,
     k |-> Nada, c |-> Nada]

\* No entry of self.resultados.
SinResultado ==
    [hay |-> FALSE, datos_originales |-> <<>>,
     parametros |-> SinParametrosCiudad,
     velocidades_caracteristicas |-> SinCaracteristicas,
     distribucion |-> SinModelo]

\* No call of generar_reporte_completo has returned.
SinReporte == [devuelto |-> FALSE, ninguno |-> FALSE, filas |-> <<>>]

\* AnalisisVientoWeibull.__init__
InitPipeline ==
    /\ datos = SinDatos
    /\ ciudades_seleccionadas = <<>>
    /\ parametros = [c \in Columnas |-> SinParametrosCiudad]
    /\ distribuciones = [c \in Columnas |-> SinModelo]
    /\ resultados = [orden |-> <<>>, de |-> [c \in Columnas |-> SinResultado]]
    /\ producidos = FALSE
    /\ reporte = SinReporte

\* The rows of a sheet of Colombian data.
FilasColombia == 31

\* The municipalities a sheet may have a column of, and a name it has not.
Municipios == {"Riohacha", "Valledupar", "Barranquilla"}

NombresColumna == Municipios \cup {"Dia"}

\* A column of a sheet: n alternating speeds and then missing values.
Columna(a, b, n) ==
    [i \in 1..FilasColombia |->
        IF i <= n THEN FromInt(IF i % 2 = 0 THEN a ELSE b) ELSE NaN]

\* The column of day numbers.
ColumnaDia == [i \in 1..FilasColombia |-> FromInt(i)]

\* A sheet Datos_Weibull: its columns in order and the values of each.
HojaColombia(cols, vals) ==
    [columnas |-> <<"Dia">> \o cols,
     de |-> [c \in NombresColumna |->
                IF c = "Dia" THEN ColumnaDia
                ELSE IF \E i \in DOMAIN cols : cols[i] = c
                THEN vals[CHOOSE i \in DOMAIN cols : cols[i] = c]
                ELSE <<>>]]

\* A sheet with a municipality of too few records between two of enough.
HojaEjemplo ==
    HojaColombia(<<"Riohacha", "Valledupar", "Barranquilla">>,
                 <<Columna(3, 5, MinRegistros),
                   Columna(3, 5, MinRegistros - 1),
                   Columna(4, 6, FilasColombia)>>)

\* Sheets whose municipalities have enough records or too few, a zero or
\* negative mean, or no spread.
HojasColombia ==
    {HojaEjemplo,
     HojaColombia(<<"Riohacha", "Valledupar", "Barranquilla">>,
                  <<Columna(0, 0, MinRegistros),
                    Columna(2, 5, MinRegistros),
                    Columna(5, 5, MinRegistros)>>),
     HojaColombia(<<"Barranquilla", "Riohacha">>,
                  <<Columna(-1, -3, FilasColombia), Columna(3, 5, 2)>>)}

\* No entry of resultados_municipios.
SinMunicipio ==
    [presente |-> FALSE, n_datos |-> 0, evaluadas |-> {}, k |-> Nada,
     c |-> Nada, v_mp |-> Nada, v_MAXE |-> Nada]

\* No call on the Colombia analyser yet.
SinAnalizado ==
    [op |-> "none", municipio |-> "", err |-> "none", evaluadas |-> {},
     antes |-> [m \in NombresColumna |-> SinMunicipio],
     procesados |-> <<>>, exitosos |-> {}]

\* AnalisisWeibullColombia.__init__, for the sheet it loaded
InitColombia(hojas) ==
    /\ datos_originales \in hojas
    /\ resultados_municipios = [m \in NombresColumna |-> SinMunicipio]
    /\ analizado = SinAnalizado

\* A row of the Excel file: fecha as a day number, vel_viento (m/s) and
\* Municipio.
Registro(fecha, vel, municipio) ==
    [fecha |-> fecha, vel |-> FromInt(vel), Municipio |-> municipio]

\* A table with a municipality of five records, one of them out of range
\* and one an outlier, one of two calm days and one of a single record.
TablaEjemplo ==
    <<Registro(1, 3, "Riohacha"), Registro(1, 0, "Valledupar"),
      Registro(2, 5, "Riohacha"), Registro(2, 7, "Barranquilla"),
      Registro(3, 4, "Riohacha"), Registro(3, 0, "Valledupar"),
      Registro(4, 60, "Riohacha"), Registro(5, 20, "Riohacha")>>

\* The municipalities of the table and one it has no rows of.
MunicipiosTabla == {"Riohacha", "Valledupar", "Barranquilla", "Soledad"}

\* No entry of the cache of the Excel importer.
SinProcesado ==
    [presente |-> FALSE, n_datos |-> 0, n_filtrados |-> 0,
     velocidades |-> <<>>, fechas |-> <<>>]

\* An optional date: None, or a day.
SinFecha == [hay |-> FALSE, dia |-> 0]

Fecha(dia) == [hay |-> TRUE, dia |-> dia]

\* The keyword arguments of extraer_datos_municipio left at their defaults;
\* indice_vacio_falla is whether the numpy installed raises IndexError for
\* the percentile of an empty array or returns nan.
KwExcel ==
    [fecha_inicio |-> SinFecha, fecha_fin |-> SinFecha,
     filtrar_outliers |-> TRUE, vel_min |-> Zero, vel_max |-> FromInt(50),
     indice_vacio_falla |-> TRUE]

\* No call on an importer yet.
SinExtraccion ==
    [op |-> "none", municipio |-> "", err |-> "none", kw |-> KwExcel,
     velocidades |-> <<>>, fechas |-> <<>>,
     n_datos |-> 0, n_filtrados |-> 0, tras_fechas |-> 0,
     antes |-> [m \in MunicipiosTabla |-> SinProcesado],
     pedidos |-> <<>>, procesados |-> <<>>, devueltos |-> {}]

\* ImportadorDatosExcel.__init__ and ImportadorSimple.__init__, with the
\* table their first call loads.
InitImportadores ==
    /\ registros = TablaEjemplo
    /\ datos_procesados_excel = [m \in MunicipiosTabla |-> SinProcesado]
    /\ extraccion = SinExtraccion

\* sorted(self.datos['Municipio'].unique()) of the files considered.
MunicipiosOrdenados == <<"Barranquilla", "Riohacha", "Valledupar">>

\* A file Datos.xlsx, by the number of its records of each municipality.
Conteo(b, r, v) ==
    [m \in {"Barranquilla", "Riohacha", "Valledupar"} |->
        IF m = "Barranquilla" THEN b ELSE IF m = "Riohacha" THEN r ELSE v]

\* What input() gave: a line of text, or the exception it raised.
Texto(s) == [evento |-> "texto", texto |-> s]

Excepcion(e) == [evento |-> e, texto |-> <<>>]

\* solicitar_municipios_usuario has not been called.
SinSeleccion ==
    [pc |-> "inicio", desde |-> "inicio", municipios_disponibles |-> <<>>,
     indice1 |-> -1, municipio_1 |-> "", devuelto |-> <<>>, err |-> "none",
     entrada |-> Texto(<<>>)]

\* AnalisisDetalladoWeibull.__init__ and cargar_datos_completos, for the
\* file it loaded
InitInteractivo(archivos) ==
    /\ datos_completos \in archivos
    /\ municipios_seleccionados = <<>>
    /\ seleccion = SinSeleccion

\* The auto_weibull process as main() begins.
SinArranque ==
    [pc |-> "detectar", cmd |-> 1, python_cmd |-> "", venv |-> FALSE,
     python_venv |-> FALSE, dep |-> 1, verificadas |-> {},
     instaladas |-> {}, pasos |-> <<>>, lanzado |-> FALSE, analisis |-> "",
     fallo |-> "none", salida |-> -1]

InitArranque == arranque = SinArranque

\* The numeric methods neither read nor write the generator: they are
\* explored from one state of it.
Init ==
    /\ modelo = SinModelo
    /\ llamada = SinLlamada
    /\ estimacion = SinEstimacion
    /\ rng = 0
    /\ primera = SinPrimera
    /\ detalle = SinDetalle
    /\ caracteristicas = SinCaracteristicas
    /\ InitCiudades
    /\ InitPipeline
    /\ InitColombia({HojaEjemplo})
    /\ InitImportadores
    /\ InitInteractivo({Conteo(150, 365, 101)})
    /\ InitArranque

\* weibull = DistribucionWeibull(k, lambda_param)
Construir(k, lambda_param) ==
    /\ llamada.op = "none"
    /\ LET r == init(k, lambda_param)
       IN /\ modelo' = IF r.err = "none"
                       THEN [existe |-> TRUE, k |-> r.val.k,
                             lambda_param |-> r.val.lambda_param]
                       ELSE modelo
          /\ llamada' = [op |-> "__init__", arg |-> k, arg2 |-> lambda_param,
                         err |-> r.err, val |-> Nada]
    /\ UNCHANGED <<orquestacion, estimacion, generador, caracteristicas, ecuaciones, pipeline>>

\* A method of the instance that takes one number and returns one.
Evaluar(op, x) ==
    /\ llamada.op = "none"
    /\ modelo.existe
    /\ \E r \in {CASE op = "pdf" -> Ok(pdf(modelo, x))
                   [] op = "cdf" -> Ok(cdf(modelo, x))
                   [] op = "survival_function" -> Ok(survival_function(modelo, x))
                   [] op = "hazard_function" -> Ok(hazard_function(modelo, x))
                   [] op = "percentil" -> percentil(modelo, x)
                   [] op = "ecuacion_1_pdf" ->
                         Ok(ecuacion_1_pdf(x, modelo.k, modelo.lambda_param))} :
          llamada' = Llamada(op, x, Nada, r)
    /\ UNCHANGED <<orquestacion, modelo, estimacion, generador, caracteristicas, ecuaciones,
                   pipeline>>

Pdf(x) == Evaluar("pdf", x)

Cdf(x) == Evaluar("cdf", x)

SurvivalFunction(x) == Evaluar("survival_function", x)

HazardFunction(x) == Evaluar("hazard_function", x)

Percentil(p) == Evaluar("percentil", p)

\* ecuaciones.ecuacion_1_pdf(v, k, c) with the k and c of the instance.
Ecuacion1Pdf(v) == Evaluar("ecuacion_1_pdf", v)

\* weibull.cdf(weibull.percentil(p)): the percentile is kept as arg2.
CdfDePercentil(p) ==
    /\ llamada.op = "none"
    /\ modelo.existe
    /\ \E q \in {percentil(modelo, p)} :
          llamada' = Llamada("cdf_de_percentil", p, q.val,
                             IF q.err # "none" THEN q
                             ELSE Ok(cdf(modelo, q.val)))
    /\ UNCHANGED <<orquestacion, modelo, estimacion, generador, caracteristicas, ecuaciones,
                   pipeline>>

\* weibull.percentil(weibull.cdf(v)): the probability is kept as arg2.
PercentilDeCdf(v) ==
    /\ llamada.op = "none"
    /\ modelo.existe
    /\ \E F \in {cdf(modelo, v)} :
          llamada' = Llamada("percentil_de_cdf", v, F, percentil(modelo, F))
    /\ UNCHANGED <<orquestacion, modelo, estimacion, generador, caracteristicas, ecuaciones,
                   pipeline>>

\* A method of the instance that takes no argument.
Estadistica(op) ==
    /\ llamada.op = "none"
    /\ modelo.existe
    /\ \E r \in {CASE op = "media" -> Ok(media(modelo))
                   [] op = "varianza" -> Ok(varianza(modelo))
                   [] op = "desviacion_estandar" -> Ok(desviacion_estandar(modelo))
                   [] op = "moda" -> Ok(moda(modelo))
                   [] op = "mediana" -> Ok(mediana(modelo))} :
          llamada' = Llamada(op, Nada, Nada, r)
    /\ UNCHANGED <<orquestacion, modelo, estimacion, generador, caracteristicas, ecuaciones,
                   pipeline>>

Media == Estadistica("media")

Varianza == Estadistica("varianza")

DesviacionEstandar == Estadistica("desviacion_estandar")

Moda == Estadistica("moda")

Mediana == Estadistica("mediana")

CalcularParametrosWeibull(velocidades) ==
    /\ llamada.op = "none"
    /\ LET r == calcular_parametros_weibull(velocidades)
       IN /\ estimacion' = [muestra |-> velocidades, err |-> r.err,
                            v_media |-> r.v_media, sigma |-> r.sigma,
                            coef_variacion |-> r.coef_variacion,
                            k |-> r.k, c |-> r.c]
          /\ llamada' = [op |-> "calcular_parametros_weibull", arg |-> Nada,
                         arg2 |-> Nada, err |-> r.err, val |-> r.k]
    /\ UNCHANGED <<orquestacion, modelo, generador, caracteristicas, ecuaciones, pipeline>>

\* ecuacion_3_parametro_k(float(np.mean(v)), float(np.std(v, ddof=1))), as
\* procesar_datos_ciudad calls it.
Ecuacion3ParametroK(velocidades) ==
    /\ llamada.op = "none"
    /\ \E v_promedio \in {Mean(velocidades)}, sigma \in {Std1(velocidades)} :
          \E r \in {ecuacion_3_parametro_k(v_promedio, sigma)} :
             /\ estimacion' = [SinEstimacion EXCEPT !.muestra = velocidades,
                                                    !.err = r.err,
                                                    !.v_media = v_promedio,
                                                    !.sigma = sigma,
                                                    !.k = r.val]
             /\ llamada' = Llamada("ecuacion_3_parametro_k", v_promedio, sigma, r)
    /\ UNCHANGED <<orquestacion, modelo, generador, caracteristicas, ecuaciones, pipeline>>

\* The speeds of a municipality: too few, and MinRegistros of them that
\* alternate, are all 0, are all equal, or are negative.
Registros(a, b) ==
    [i \in 1..MinRegistros |-> FromInt(IF i % 2 = 0 THEN a ELSE b)]

MuestrasMunicipio ==
    {<<FromInt(3), FromInt(5)>>, Registros(3, 5), Registros(0, 0),
     Registros(5, 5), Registros(-1, -3)}

\* A call of one of the two step-by-step estimators and what it left.
Verificada(op, velocidades, r) ==
    /\ llamada.op = "none"
    /\ estimacion' = [muestra |-> velocidades, err |-> r.err,
                      v_media |-> r.v_media, sigma |-> r.sigma,
                      coef_variacion |-> r.coef_variacion,
                      k |-> r.k, c |-> r.c]
    /\ llamada' = [SinLlamada EXCEPT !.op = op, !.err = r.err,
                                     !.val = r.error_relativo]
    /\ UNCHANGED <<orquestacion, modelo, generador, caracteristicas, ecuaciones, pipeline>>

\* analizador.calcular_parametros_weibull_paso_a_paso(municipio)
CalcularParametrosWeibullPasoAPaso(velocidades) ==
    \E r \in {calcular_parametros_weibull_paso_a_paso(velocidades)} :
       Verificada("calcular_parametros_weibull_paso_a_paso", velocidades, r)

\* analizador.aplicar_ecuaciones_municipio(municipio)
AplicarEcuacionesMunicipio(velocidades) ==
    \E r \in {aplicar_ecuaciones_municipio(velocidades)} :
       Verificada("aplicar_ecuaciones_municipio", velocidades, r)

\* analizador.calcular_velocidades_caracteristicas(k, c)
CalcularVelocidadesCaracteristicas(k, c) ==
    /\ llamada.op = "none"
    /\ llamada' = [SinLlamada EXCEPT
                      !.op = "calcular_velocidades_caracteristicas",
                      !.arg = k, !.arg2 = c]
    /\ caracteristicas' = calcular_velocidades_caracteristicas(k, c)
    /\ UNCHANGED <<orquestacion, modelo, estimacion, generador, ecuaciones, pipeline>>

\* ecuaciones.ecuacion_5_velocidad_mas_probable(k, c)
Ecuacion5VelocidadMasProbable(k, c) ==
    /\ llamada.op = "none"
    /\ llamada' = Llamada("ecuacion_5_velocidad_mas_probable", k, c,
                          Ok(ecuacion_5_velocidad_mas_probable(k, c)))
    /\ UNCHANGED <<orquestacion, modelo, estimacion, generador, caracteristicas, ecuaciones,
                   pipeline>>

\* AnalisisWeibullColombia's ecuacion_5_velocidad_mas_probable(k, c)
ColombiaEcuacion5(k, c) ==
    /\ llamada.op = "none"
    /\ llamada' = Llamada("colombia_ecuacion_5_velocidad_mas_probable", k, c,
                          Ok(colombia_ecuacion_5_velocidad_mas_probable(k, c)))
    /\ UNCHANGED <<orquestacion, modelo, estimacion, generador, caracteristicas, ecuaciones,
                   pipeline>>

\* The caller goes on to its next statement.
Retornar ==
    /\ llamada.op # "none"
    /\ llamada' = SinLlamada
    /\ estimacion' = SinEstimacion
    /\ detalle' = SinDetalle
    /\ caracteristicas' = SinCaracteristicas
    /\ reporte' = SinReporte
    /\ UNCHANGED <<orquestacion, modelo, rng, primera, ecuaciones, analisis>>

Next ==
    \/ \E k \in KVals, l \in LambdaVals : Construir(k, l)
    \/ \E x \in XVals : Pdf(x)
    \/ \E x \in XVals : Cdf(x)
    \/ \E x \in XVals : SurvivalFunction(x)
    \/ \E x \in XVals : HazardFunction(x)
    \/ \E p \in PVals : Percentil(p)
    \/ Media
    \/ Varianza
    \/ DesviacionEstandar
    \/ Moda
    \/ Mediana
    \/ \E v \in Muestras : CalcularParametrosWeibull(v)
    \/ \E v \in Muestras : Ecuacion3ParametroK(v)
    \/ \E k \in KVals, c \in LambdaVals :
          CalcularVelocidadesCaracteristicas(k, c)
    \/ \E k \in KVals, c \in LambdaVals : Ecuacion5VelocidadMasProbable(k, c)
    \/ \E k \in KVals, c \in LambdaVals : ColombiaEcuacion5(k, c)
    \/ \E v \in Muestras : CalcularParametrosWeibullPasoAPaso(v)
    \/ \E v \in MuestrasMunicipio : AplicarEcuacionesMunicipio(v)
    \/ \E v \in XVals : Ecuacion1Pdf(v)
    \/ \E p \in PVals : CdfDePercentil(p)
    \/ \E v \in XVals : PercentilDeCdf(v)
    \/ Retornar

Spec == Init /\ [][Next]_vars

\* ------------------------------------------------------------------------
\* Sampling: every method of DistribucionWeibull, with the generator
\* ------------------------------------------------------------------------

\* Largest sample size asked for.
MaxN == 2

\* Number of seeds used.
NumSemillas == 2

SemillaVals == {Ninguno} \cup {Algo(s) : s \in 0..(NumSemillas - 1)}

KMuestreo == {Two, FromRat(3, 2)}

LambdaMuestreo == {One, Two}

XMuestreo == {One}

PMuestreo == {FromRat(1, 2)}

KValoresVals == {Ninguno, Algo(<<FromInt(3), Zero>>)}

LambdaValoresVals == {Ninguno}

\* The generator starts from the operating system's entropy.
InitMuestreo ==
    /\ modelo = SinModelo
    /\ llamada = SinLlamada
    /\ estimacion = SinEstimacion
    /\ rng \in RngVals
    /\ primera = SinPrimera
    /\ detalle = SinDetalle
    /\ caracteristicas = SinCaracteristicas
    /\ InitCiudades
    /\ InitPipeline
    /\ InitColombia({HojaEjemplo})
    /\ InitImportadores
    /\ InitInteractivo({Conteo(150, 365, 101)})
    /\ InitArranque

\* The call is seeded and has the instance, size and seed of the first
\* seeded call.
MismaClave(n, random_state) ==
    /\ primera.hay
    /\ random_state # Ninguno
    /\ primera.k = modelo.k
    /\ primera.lambda_param = modelo.lambda_param
    /\ primera.n = n
    /\ primera.random_state = random_state

\* muestras = weibull.generar_muestras(n, random_state)
GenerarMuestras(n, random_state) ==
    /\ llamada.op = "none"
    /\ modelo.existe
    /\ \E r \in {generar_muestras(modelo, n, random_state, rng)} :
          /\ rng' = r.rng
          /\ llamada' = [SinLlamada EXCEPT !.op = "generar_muestras"]
          /\ detalle' = [SinDetalle EXCEPT !.n = n,
                                           !.random_state = random_state,
                                           !.muestras = r.val]
          /\ primera' =
                IF ~primera.hay
                THEN IF random_state # Ninguno
                     THEN [hay |-> TRUE, otras |-> FALSE, k |-> modelo.k,
                           lambda_param |-> modelo.lambda_param, n |-> n,
                           random_state |-> random_state, val |-> r.val]
                     ELSE primera
                ELSE IF MismaClave(n, random_state) THEN primera
                     ELSE [primera EXCEPT !.otras = TRUE]
    /\ UNCHANGED <<orquestacion, modelo, estimacion, caracteristicas, ecuaciones, pipeline>>

\* resumen = weibull.resumen_estadistico()
ResumenEstadistico ==
    /\ llamada.op = "none"
    /\ modelo.existe
    /\ llamada' = [SinLlamada EXCEPT !.op = "resumen_estadistico"]
    /\ detalle' = [SinDetalle EXCEPT
                      !.resumen = Algo(resumen_estadistico(modelo))]
    /\ UNCHANGED <<orquestacion, modelo, estimacion, rng, primera, caracteristicas,
                   ecuaciones, pipeline>>

\* weibull.graficar_comparacion_parametros(k_valores, lambda_valores)
GraficarComparacionParametros(k_valores, lambda_valores) ==
    /\ llamada.op = "none"
    /\ modelo.existe
    /\ \E r \in {graficar_comparacion_parametros(modelo, k_valores,
                                                  lambda_valores)} :
          /\ modelo' = r.self
          /\ llamada' = [SinLlamada EXCEPT
                            !.op = "graficar_comparacion_parametros",
                            !.err = r.err]
          /\ detalle' = [SinDetalle EXCEPT !.k_valores = k_valores,
                                           !.lambda_valores = lambda_valores]
    /\ UNCHANGED <<orquestacion, estimacion, rng, primera, caracteristicas, ecuaciones,
                   pipeline>>

NextMuestreo ==
    \/ \E k \in KMuestreo, l \in LambdaMuestreo : Construir(k, l)
    \/ \E x \in XMuestreo : Pdf(x)
    \/ \E x \in XMuestreo : Cdf(x)
    \/ \E x \in XMuestreo : SurvivalFunction(x)
    \/ \E x \in XMuestreo : HazardFunction(x)
    \/ \E p \in PMuestreo : Percentil(p)
    \/ Media
    \/ Varianza
    \/ DesviacionEstandar
    \/ Moda
    \/ Mediana
    \/ \E n \in 1..MaxN, s \in SemillaVals : GenerarMuestras(n, s)
    \/ ResumenEstadistico
    \/ \E kv \in KValoresVals, lv \in LambdaValoresVals :
          GraficarComparacionParametros(kv, lv)
    \/ Retornar

SpecMuestreo == InitMuestreo /\ [][NextMuestreo]_vars

\* ------------------------------------------------------------------------
\* The cities of an EcuacionesWeibullViento object
\* ------------------------------------------------------------------------

NumMuestrasCiudad == 2

\* Samples that give parameters, and two for which the call raises: wind
\* speeds that are all 0 and no speeds at all.
MuestrasCiudad ==
    {[i \in 1..(j + 1) |-> FromInt(2 * i + j)] : j \in 1..NumMuestrasCiudad}
        \cup {<<Zero, Zero>>, <<>>}

\* The record of the calls for a city after one more call.
Anotar(u, velocidades, devolvio) ==
    [llamada |-> TRUE, dada |-> velocidades,
     devolvio |-> u.devolvio \/ devolvio,
     devuelta |-> IF devolvio THEN velocidades ELSE u.devuelta,
     reemplazada |-> u.reemplazada
                       \/ (devolvio /\ u.devolvio /\ u.devuelta # velocidades)]

\* ecuaciones.procesar_datos_ciudad(velocidades, nombre_ciudad): the entry
\* is assigned last, so a call that raises leaves datos_procesados alone.
ProcesarDatosCiudad(velocidades, nombre_ciudad) ==
    /\ llamada.op = "none"
    /\ \E r \in {procesar_datos_ciudad(velocidades)} :
          /\ llamada' = [SinLlamada EXCEPT !.op = "procesar_datos_ciudad",
                                           !.err = r.err, !.val = r.k]
          /\ datos_procesados' =
                IF r.err = "none"
                THEN Almacenar(datos_procesados, nombre_ciudad, Entrada(r))
                ELSE datos_procesados
          /\ ultima' = [ultima EXCEPT ![nombre_ciudad] =
                           Anotar(@, velocidades, r.err = "none")]
    /\ UNCHANGED <<orquestacion, modelo, estimacion, generador, caracteristicas, pipeline>>

NextCiudades ==
    \/ \E v \in MuestrasCiudad, c \in Ciudades : ProcesarDatosCiudad(v, c)
    \/ Retornar

SpecCiudades == Init /\ [][NextCiudades]_vars

\* ------------------------------------------------------------------------
\* The pipeline of an AnalisisVientoWeibull object
\* ------------------------------------------------------------------------

\* The elements of a list.
Elementos(s) == {s[i] : i \in 1..Len(s)}

\* s[:n]
Primeros(s, n) == SubSeq(s, 1, IF Len(s) < n THEN Len(s) ELSE n)

\* A DataFrame with the column Dia, the city columns cols, in order, and
\* the values of the city columns.
Hoja(cols, vals) ==
    [cargado |-> TRUE, columnas |-> <<"Dia">> \o cols,
     valores |-> [c \in Columnas |-> IF c \in DOMAIN vals THEN vals[c]
                                     ELSE <<>>]]

\* Days of example data crear_datos_ejemplo draws (365 in the source).
DiasEjemplo == 3

SemillaEjemplo == 42

\* The two columns crear_datos_ejemplo draws, np.random.weibull(a, n) * scale
\* one after the other from the generator seeded with 42, and the state the
\* generator is left in.
VientosEjemplo ==
    The({[costa |-> vc.val, rng |-> vc.rng] :
            vc \in {rvs([k |-> FromRat(22, 10), lambda_param |-> FromRat(15, 2)],
                        DiasEjemplo, seed(SemillaEjemplo))}})

DatosEjemplo ==
    The({[datos |-> Hoja(<<"Ciudad_Costa", "Ciudad_Interior">>,
                         [Ciudad_Costa |-> VientosEjemplo.costa,
                          Ciudad_Interior |-> vi.val]),
          rng |-> vi.rng] :
            vi \in {rvs([k |-> FromRat(18, 10), lambda_param |-> FromInt(6)],
                        DiasEjemplo, VientosEjemplo.rng)}})

\* AnalisisVientoWeibull.cargar_datos for a file that holds the DataFrame
\* archivo.datos, is missing (the example data are created and written) or
\* cannot be read; r is the state of the generator. What self.datos and the
\* generator become, the exception raised and whether None was returned.
cargar_datos(self_datos, archivo, r) ==
    IF archivo.estado = "legible"
    THEN [datos |-> archivo.datos, rng |-> r, err |-> "none",
          ninguno |-> FALSE]
    ELSE IF archivo.estado = "ausente"
    THEN [datos |-> DatosEjemplo.datos, rng |-> DatosEjemplo.rng,
          err |-> IF archivo.escribible THEN "none" ELSE "OSError",
          ninguno |-> FALSE]
    ELSE [datos |-> self_datos, rng |-> r, err |-> "none", ninguno |-> TRUE]

\* The cities asked for that are columns of the data, in the order asked.
ciudades_validas(ciudades, ciudades_disponibles) ==
    SelectSeq(ciudades, LAMBDA c : c \in Elementos(ciudades_disponibles))

\* [col for col in self.datos.columns if col != 'Dia']
ColumnasDeCiudad(self_datos) ==
    SelectSeq(self_datos.columnas, LAMBDA col : col # "Dia")

\* The selection for the columns that are available.
SeleccionEntre(ciudades, ciudades_disponibles) ==
    Primeros(IF Len(ciudades_validas(ciudades, ciudades_disponibles)) < 2
             THEN Primeros(ciudades_disponibles, 2)
             ELSE ciudades_validas(ciudades, ciudades_disponibles), 2)

\* seleccionar_ciudades with every column taken as a city, Dia too.
seleccionar_con_dia(self_datos, seleccionadas, ciudades) ==
    IF ~self_datos.cargado THEN seleccionadas
    ELSE SeleccionEntre(ciudades, self_datos.columnas)

\* AnalisisVientoWeibull.seleccionar_ciudades: the new value of
\* self.ciudades_seleccionadas.
seleccionar_ciudades(self_datos, seleccionadas, ciudades) ==
    IF ~self_datos.cargado THEN seleccionadas
    ELSE SeleccionEntre(ciudades, ColumnasDeCiudad(self_datos))

\* The entry of self.parametros made of what the estimator returned.
ParametrosCiudad(params) ==
    [hay |-> TRUE, v_media |-> params.v_media, sigma |-> params.sigma,
     coef_variacion |-> params.coef_variacion, k |-> params.k,
     c |-> params.c]

\* The dictionaries after a key is assigned: a new key goes last.
Asignar(res, ciudad, resultado) ==
    [orden |-> IF ciudad \in Elementos(res.orden) THEN res.orden
               ELSE Append(res.orden, ciudad),
     de |-> [res.de EXCEPT ![ciudad] = resultado]]

\* The rest of the loop body of procesar_ciudades once the parameters are
\* stored: DistribucionWeibull(k, c) raises ValueError for k <= 0 or
\* c <= 0, and then nothing else is stored for the city.
ConDistribucion(st, ciudad, velocidades, params, d) ==
    IF d.err # "none"
    THEN [st EXCEPT !.err = d.err,
                    !.parametros[ciudad] = ParametrosCiudad(params)]
    ELSE [err |-> "none",
          parametros |-> [st.parametros EXCEPT
                             ![ciudad] = ParametrosCiudad(params)],
          distribuciones |-> [st.distribuciones EXCEPT ![ciudad] =
                                 [existe |-> TRUE, k |-> d.val.k,
                                  lambda_param |-> d.val.lambda_param]],
          resultados |-> Asignar(st.resultados, ciudad,
              [hay |-> TRUE, datos_originales |-> velocidades,
               parametros |-> ParametrosCiudad(params),
               velocidades_caracteristicas |->
                   calcular_velocidades_caracteristicas(params.k, params.c),
               distribucion |-> [existe |-> TRUE, k |-> d.val.k,
                                 lambda_param |-> d.val.lambda_param]]),
          producidos |-> TRUE]

ConParametros(st, ciudad, velocidades, params) ==
    The({ConDistribucion(st, ciudad, velocidades, params, d) :
            d \in {init(params.k, params.c)}})

\* One pass of the loop of procesar_ciudades; self.datos[ciudad] raises
\* KeyError for a city that is not a column of the data.
ProcesarCiudad(st, self_datos, ciudad) ==
    IF ciudad \notin Elementos(self_datos.columnas)
    THEN [st EXCEPT !.err = "KeyError"]
    ELSE The({ConParametros(st, ciudad, self_datos.valores[ciudad], params) :
                 params \in {calcular_parametros_weibull(
                                self_datos.valores[ciudad])}})

\* The loop of procesar_ciudades from the i-th selected city on.
RECURSIVE ProcesarDesde(_, _, _, _)
ProcesarDesde(st, self_datos, seleccionadas, i) ==
    IF i > Len(seleccionadas) \/ st.err # "none" THEN st
    ELSE The({ProcesarDesde(s2, self_datos, seleccionadas, i + 1) :
                 s2 \in {ProcesarCiudad(st, self_datos, seleccionadas[i])}})

\* AnalisisVientoWeibull.procesar_ciudades: the dictionaries of the object
\* after the call and the exception raised.
procesar_ciudades(st, self_datos, seleccionadas) ==
    IF Len(seleccionadas) = 0 THEN st
    ELSE ProcesarDesde(st, self_datos, seleccionadas, 1)

\* The row of the report for a city.
Fila(ciudad, resultado) ==
    [Ciudad |-> ciudad, N_datos |-> Len(resultado.datos_originales),
     k |-> resultado.parametros.k, c |-> resultado.parametros.c,
     v_mp |-> resultado.velocidades_caracteristicas.v_mp,
     v_MAXE |-> resultado.velocidades_caracteristicas.v_MAXE]

\* generar_reporte_completo without the test of self.resultados: an empty
\* DataFrame for no results.
generar_reporte_sin_guarda(self_resultados) ==
    [devuelto |-> TRUE, ninguno |-> FALSE,
     filas |-> [i \in 1..Len(self_resultados.orden) |->
                   Fila(self_resultados.orden[i],
                        self_resultados.de[self_resultados.orden[i]])]]

\* AnalisisVientoWeibull.generar_reporte_completo: None, or the DataFrame
\* with one row for each result, in the order of the dictionary.
generar_reporte_completo(self_resultados) ==
    IF Len(self_resultados.orden) = 0
    THEN [devuelto |-> TRUE, ninguno |-> TRUE, filas |-> <<>>]
    ELSE [devuelto |-> TRUE, ninguno |-> FALSE,
          filas |-> [i \in 1..Len(self_resultados.orden) |->
                        Fila(self_resultados.orden[i],
                             self_resultados.de[self_resultados.orden[i]])]]

\* The DataFrames a data file can hold: two cities, three cities of which
\* the first has speeds whose mean is 0, one city, and no city at all.
HojasLegibles ==
    {Hoja(<<"Ciudad_Costa", "Ciudad_Interior">>,
          [Ciudad_Costa |-> <<FromInt(3), FromInt(5)>>,
           Ciudad_Interior |-> <<FromInt(2), FromInt(6)>>]),
     Hoja(<<"Ciudad_Sierra", "Ciudad_Costa", "Ciudad_Interior">>,
          [Ciudad_Sierra |-> <<FromInt(-1), FromInt(1)>>,
           Ciudad_Costa |-> <<FromInt(3), FromInt(5)>>,
           Ciudad_Interior |-> <<FromInt(2), FromInt(6)>>]),
     Hoja(<<"Ciudad_Costa">>, [Ciudad_Costa |-> <<FromInt(3), FromInt(5)>>]),
     Hoja(<<>>, <<>>)}

\* What cargar_datos can find at archivo_datos: a readable file, no file
\* (in a directory that can or cannot be written) or a file that is not a
\* workbook.
ArchivoVals ==
    {[estado |-> "legible", escribible |-> TRUE, datos |-> h] :
        h \in HojasLegibles}
    \cup {[estado |-> "ausente", escribible |-> e, datos |-> SinDatos] :
            e \in BOOLEAN}
    \cup {[estado |-> "ilegible", escribible |-> TRUE, datos |-> SinDatos]}

\* The lists of cities seleccionar_ciudades is called with.
SeleccionVals ==
    {<<>>, <<"Ciudad_Interior", "Ciudad_Costa">>,
     <<"Ciudad_Sierra", "Ciudad_Interior", "Ciudad_Costa">>,
     <<"Ciudad_Norte">>, <<"Dia", "Ciudad_Interior">>}

\* analisis.cargar_datos()
CargarDatos(archivo) ==
    /\ llamada.op = "none"
    /\ \E r \in {cargar_datos(datos, archivo, rng)} :
          /\ datos' = r.datos
          /\ rng' = r.rng
          /\ llamada' = [SinLlamada EXCEPT !.op = "cargar_datos",
                                           !.err = r.err]
    /\ UNCHANGED <<orquestacion, modelo, estimacion, primera, detalle, caracteristicas,
                   ecuaciones, ciudades_seleccionadas, parametros,
                   distribuciones, resultados, producidos, reporte>>

\* analisis.seleccionar_ciudades(ciudades)
SeleccionarCiudades(ciudades) ==
    /\ llamada.op = "none"
    /\ ciudades_seleccionadas' =
          seleccionar_ciudades(datos, ciudades_seleccionadas, ciudades)
    /\ llamada' = [SinLlamada EXCEPT !.op = "seleccionar_ciudades"]
    /\ detalle' = [SinDetalle EXCEPT !.ciudades = ciudades]
    /\ UNCHANGED <<orquestacion, modelo, estimacion, rng, primera, caracteristicas,
                   ecuaciones, datos, parametros, distribuciones, resultados,
                   producidos, reporte>>

\* analisis.procesar_ciudades()
ProcesarCiudades ==
    /\ llamada.op = "none"
    /\ \E r \in {procesar_ciudades(
                    [err |-> "none", parametros |-> parametros,
                     distribuciones |-> distribuciones,
                     resultados |-> resultados, producidos |-> producidos],
                    datos, ciudades_seleccionadas)} :
          /\ parametros' = r.parametros
          /\ distribuciones' = r.distribuciones
          /\ resultados' = r.resultados
          /\ producidos' = r.producidos
          /\ llamada' = [SinLlamada EXCEPT !.op = "procesar_ciudades",
                                           !.err = r.err]
    /\ UNCHANGED <<orquestacion, modelo, estimacion, generador, caracteristicas, ecuaciones,
                   datos, ciudades_seleccionadas, reporte>>

\* reporte = analisis.generar_reporte_completo()
GenerarReporteCompleto ==
    /\ llamada.op = "none"
    /\ reporte' = generar_reporte_completo(resultados)
    /\ llamada' = [SinLlamada EXCEPT !.op = "generar_reporte_completo"]
    /\ UNCHANGED <<orquestacion, modelo, estimacion, generador, caracteristicas, ecuaciones,
                   analisis>>

NextPipeline ==
    \/ \E archivo \in ArchivoVals : CargarDatos(archivo)
    \/ \E ciudades \in SeleccionVals : SeleccionarCiudades(ciudades)
    \/ ProcesarCiudades
    \/ GenerarReporteCompleto
    \/ Retornar

SpecPipeline == Init /\ [][NextPipeline]_vars
\* ------------------------------------------------------------------------
\* Properties
\* ------------------------------------------------------------------------

\* An instance whose parameters are finite and positive.
Valido(self) ==
    /\ self.existe
    /\ IsFinite(self.k) /\ Gt(self.k, Zero)
    /\ IsFinite(self.lambda_param) /\ Gt(self.lambda_param, Zero)

Medio == FromRat(1, 2)

\* C1: the constructor raises whenever k <= 0 or lambda_param <= 0, and when
\* both are > 0 it succeeds and stores exactly the k and lambda_param given;
\* no instance ever holds a non-positive parameter.
C1_ConstructorValida ==
    /\ modelo.existe =>
          ~Leq(modelo.k, Zero) /\ ~Leq(modelo.lambda_param, Zero)
    /\ llamada.op = "__init__" =>
          /\ (Leq(llamada.arg, Zero) \/ Leq(llamada.arg2, Zero))
                => llamada.err = "ValueError"
          /\ (Gt(llamada.arg, Zero) /\ Gt(llamada.arg2, Zero))
                => /\ llamada.err = "none"
                   /\ modelo.existe
                   /\ modelo.k = llamada.arg
                   /\ modelo.lambda_param = llamada.arg2

\* C1 witness: with an instance already built, a construction with k = 1 and
\* a negative scale has raised.
C1_Testigo ==
    /\ llamada.op = "__init__"
    /\ llamada.arg = One
    /\ llamada.arg2 = FromInt(-5)
    /\ llamada.err = "ValueError"
    /\ modelo.existe

\* C2: percentil(p) raises for every p < 0 and every p > 1, and returns a
\* value without raising for every p in [0, 1], both ends included.
C2_PercentilRango ==
    llamada.op = "percentil" =>
        /\ (Lt(llamada.arg, Zero) \/ Gt(llamada.arg, One))
              => llamada.err = "ValueError"
        /\ (Leq(Zero, llamada.arg) /\ Leq(llamada.arg, One))
              => llamada.err = "none" /\ llamada.val # Nada

\* C2 witness: percentil(1) has returned (the value is +Inf).
C2_Testigo ==
    /\ llamada.op = "percentil"
    /\ llamada.arg = One
    /\ llamada.err = "none"
    /\ llamada.val = PosInf

\* The call that has returned is one of the two estimators, on a sample
\* with fewer than 2 observations or a mean that is not positive.
MuestraDegenerada ==
    /\ llamada.op \in {"calcular_parametros_weibull", "ecuacion_3_parametro_k"}
    /\ (Len(estimacion.muestra) < 2 \/ Leq(estimacion.v_media, Zero))

\* C3: the estimator raises DegenerateSampleError whenever the sample mean
\* is non-positive or the sample has fewer than 2 observations, for the
\* empty sample and for [0, 0, 0] in particular.
C3_EstimadorRechazaMuestraDegenerada ==
    MuestraDegenerada => llamada.err = "DegenerateSampleError"

\* C4: for every valid model and every v, negative, zero or positive,
\* survival_function(v) + cdf(v) equals 1.
C4_SupervivenciaMasCdf ==
    (llamada.op = "survival_function" /\ Valido(modelo)) =>
        Eq(Add(llamada.val, cdf(modelo, llamada.arg)), One)

\* C4 witness: survival_function has returned a value strictly between 0
\* and 1 at a positive v.
C4_Testigo ==
    /\ llamada.op = "survival_function"
    /\ Valido(modelo)
    /\ Gt(llamada.arg, Zero)
    /\ Gt(llamada.val, Zero)
    /\ Lt(llamada.val, One)

\* C5: for every valid model, cdf(v) is exactly 0 for every v < 0 and at
\* v = 0.
C5_CdfCeroHastaCero ==
    (llamada.op = "cdf" /\ Valido(modelo) /\ Leq(llamada.arg, Zero)) =>
        llamada.val = Zero

\* C5 witness: cdf has returned at a negative v.
C5_Testigo ==
    /\ llamada.op = "cdf"
    /\ Valido(modelo)
    /\ Lt(llamada.arg, Zero)
    /\ llamada.val = Zero

\* C6: for every valid model, cdf is monotone non-decreasing over the whole
\* line (v1 <= v2 implies cdf(v1) <= cdf(v2), across v = 0 too) and its
\* value lies in [0, 1].
C6_CdfMonotona ==
    (llamada.op = "cdf" /\ Valido(modelo)) =>
        /\ Leq(Zero, llamada.val)
        /\ Leq(llamada.val, One)
        /\ \A v \in XVals :
              Leq(v, llamada.arg) => Leq(cdf(modelo, v), llamada.val)

\* C6 witness: cdf has returned a value strictly between 0 and 1 at a
\* positive v, so there are smaller points on both sides of v = 0.
C6_Testigo ==
    /\ llamada.op = "cdf"
    /\ Valido(modelo)
    /\ Gt(llamada.arg, One)
    /\ Gt(llamada.val, Zero)
    /\ Lt(llamada.val, One)

\* The factor e^(-(x/lambda)^k) of the density.
FactorExponencial(self, x) ==
    Exp(Neg(Pow(Div(x, self.lambda_param), self.k)))

Tolerancia == RoundM(1, 1, 3 - MantBits)

\* Below this value of the survival function, the rounding of 1 - cdf
\* dominates the quotient pdf / survival.
SupervivenciaMinima == FromRat(1, 8)

\* |a - b| <= |b| * Tolerancia
Cerca(a, b) == Leq(Abs(Sub(a, b)), Mul(Abs(b), Tolerancia))

C10_PercentilMedioEsMediana ==
    /\ (llamada.op = "mediana" /\ Valido(modelo)) =>
          Eq(llamada.val, percentil(modelo, Medio).val)
    /\ (llamada.op = "percentil" /\ Valido(modelo) /\ llamada.arg = Medio) =>
          Eq(llamada.val, mediana(modelo))

\* C10 witness: percentil(0.5) has returned a positive value for a model
\* with k # 1.
C10_Testigo ==
    /\ llamada.op = "percentil"
    /\ Valido(modelo)
    /\ modelo.k # One
    /\ llamada.arg = Medio
    /\ Gt(llamada.val, Zero)

\* C11: for every valid model, percentil is monotone non-decreasing in p
\* over [0, 1] (p1 <= p2 implies percentil(p1) <= percentil(p2)), and
\* percentil(0) = 0.
C11_PercentilMonotono ==
    (llamada.op = "percentil" /\ Valido(modelo) /\ llamada.err = "none") =>
        /\ llamada.arg = Zero => Eq(llamada.val, Zero)
        /\ \A q \in PVals :
              (Leq(Zero, q) /\ Leq(q, llamada.arg)) =>
                  Leq(percentil(modelo, q).val, llamada.val)

\* C11 witness: percentil has returned a positive finite value at a p
\* strictly between 0 and 1, for a model with k # 1.
C11_Testigo ==
    /\ llamada.op = "percentil"
    /\ Valido(modelo)
    /\ modelo.k # One
    /\ Gt(llamada.arg, Medio)
    /\ Lt(llamada.arg, One)
    /\ IsFinite(llamada.val)
    /\ Gt(llamada.val, Zero)

\* C12: generar_muestras(n, random_state=s) is deterministic in (k, lambda,
\* n, s): a seeded call returns the array the first seeded call with the
\* same instance parameters, size and seed returned, whatever sampling
\* calls were made in between; and every seeded call starts the stream
\* anew, so with the same instance parameters and seed but another size the
\* shorter array is the beginning of the longer one.
C12_MuestrasDeterministas ==
    (/\ llamada.op = "generar_muestras"
     /\ detalle.random_state # Ninguno
     /\ primera.hay
     /\ primera.k = modelo.k
     /\ primera.lambda_param = modelo.lambda_param
     /\ primera.random_state = detalle.random_state) =>
        /\ primera.n = detalle.n => detalle.muestras = primera.val
        /\ \A i \in 1..MaxN :
              (i <= primera.n /\ i <= detalle.n) =>
                  detalle.muestras[i] = primera.val[i]

\* C12 witness: a seeded call has returned with the parameters, size and
\* seed of the first seeded call, after other sampling calls in between.
C12_Testigo ==
    /\ llamada.op = "generar_muestras"
    /\ MismaClave(detalle.n, detalle.random_state)
    /\ primera.otras
    /\ detalle.n = MaxN
    /\ detalle.muestras = primera.val

\* C15: every operation of the Weibull model is pure: no step changes the
\* process-wide generator, so a later unseeded sampling call draws the same
\* numbers whether or not a seeded generar_muestras call came before it.
C15_OperacionesPuras == [][rng' = rng]_vars

\* C16: after construction no method changes the instance's k or
\* lambda_param: every step other than the construction of a new instance
\* leaves the instance the caller holds as it was.
C16_InstanciaInmutable ==
    [][(modelo.existe /\ llamada'.op # "__init__") => modelo' = modelo]_vars

\* C16 witness: the comparison plot has returned after building temporary
\* instances whose k differs from the instance's own.
C16_Testigo ==
    /\ llamada.op = "graficar_comparacion_parametros"
    /\ detalle.k_valores = Ninguno
    /\ llamada.err = "none"
    /\ modelo.existe
    /\ modelo.k = FromRat(3, 2)
    /\ modelo.lambda_param = Two

\* Relative tolerance of a value that went through two roundings.
ToleranciaIdentidad == RoundM(1, 1, 2 - MantBits)

\* The estimator has returned a finite positive scale and a shape.
EstimacionUsable ==
    /\ llamada.op = "calcular_parametros_weibull"
    /\ ~IsNaN(estimacion.k)
    /\ IsFinite(estimacion.c)
    /\ Gt(estimacion.c, Zero)

\* C13: for any sample on which the estimator produces (k, c), the
\* theoretical mean c * Gamma(1 + 1/k) recomputed from them equals the
\* sample mean up to rounding.
C13_IdentidadDeLaMedia ==
    EstimacionUsable =>
        Leq(Abs(Sub(Mul(estimacion.c,
                        gamma(Add(One, Div(One, estimacion.k)))),
                    estimacion.v_media)),
            Mul(estimacion.v_media, ToleranciaIdentidad))

\* C13 witness: the estimator has returned for a sample of four different
\* speeds, with Gamma(1 + 1/k) different from 1.
C13_Testigo ==
    /\ EstimacionUsable
    /\ Len(estimacion.muestra) = 4
    /\ IsFinite(estimacion.k)
    /\ estimacion.c # estimacion.v_media

\* C14: for every sample with at least 2 observations and a positive mean,
\* a constant sample included, the estimator yields finite k > 0 and finite
\* c > 0.
C14_ParametrosFinitos ==
    (/\ llamada.op = "calcular_parametros_weibull"
     /\ Len(estimacion.muestra) >= 2
     /\ Gt(estimacion.v_media, Zero)) =>
        /\ IsFinite(estimacion.k) /\ Gt(estimacion.k, Zero)
        /\ IsFinite(estimacion.c) /\ Gt(estimacion.c, Zero)

\* The call took a finite k > 0 and a finite c > 0.
ParametrosValidos ==
    /\ IsFinite(llamada.arg) /\ Gt(llamada.arg, Zero)
    /\ IsFinite(llamada.arg2) /\ Gt(llamada.arg2, Zero)

\* The DistribucionWeibull instance built from the arguments of the call.
ModeloDeLaLlamada == [k |-> llamada.arg, lambda_param |-> llamada.arg2]

\* C20: for all k > 0 and c > 0 the most-probable speed of every estimator
\* implementation equals moda() of the DistribucionWeibull built from the
\* same (k, c), 0 for k <= 1 in all of them; v_mediana equals mediana()
\* and v_media_teorica equals media().
C20_VelocidadesIgualesAlModelo ==
    /\ (llamada.op = "calcular_velocidades_caracteristicas"
          /\ ParametrosValidos) =>
          /\ Eq(caracteristicas.v_mp, moda(ModeloDeLaLlamada))
          /\ Eq(caracteristicas.v_mediana, mediana(ModeloDeLaLlamada))
          /\ Eq(caracteristicas.v_media_teorica, media(ModeloDeLaLlamada))
          /\ Leq(llamada.arg, One) => caracteristicas.v_mp = Zero
    /\ (llamada.op \in {"ecuacion_5_velocidad_mas_probable",
                        "colombia_ecuacion_5_velocidad_mas_probable"}
          /\ ParametrosValidos) =>
          /\ Eq(llamada.val, moda(ModeloDeLaLlamada))
          /\ Leq(llamada.arg, One) => llamada.val = Zero

\* C20 witness: equation 5 has returned 0 for a k below 1, where the
\* formula would not give 0.
C20_Testigo ==
    /\ llamada.op = "ecuacion_5_velocidad_mas_probable"
    /\ ParametrosValidos
    /\ Lt(llamada.arg, One)
    /\ llamada.val = Zero
    /\ ~IsZero(ecuacion_5_sin_caso_k(llamada.arg, llamada.arg2))

\* The call is one of the two step-by-step estimators and it got as far as
\* the verification step.
VerificacionAlcanzada ==
    /\ llamada.op \in {"calcular_parametros_weibull_paso_a_paso",
                       "aplicar_ecuaciones_municipio"}
    /\ estimacion.k # Nada

\* C18: the verification step that recomputes c * Gamma(1 + 1/k) and
\* reports its relative error is diagnostic only: it never raises and the
\* k and c returned are the ones equations 3 and 4 gave, whatever the size
\* of the error.
C18_VerificacionDiagnostica ==
    VerificacionAlcanzada =>
        /\ llamada.err = "none"
        /\ estimacion.k = Pow(Div(estimacion.sigma, estimacion.v_media), ExpK)
        /\ estimacion.c = ecuacion_4_parametro_c(estimacion.v_media,
                                                 estimacion.k)

\* C18 witness: a call has returned although the relative error is not
\* below the threshold (it is not a number).
C18_Testigo ==
    /\ VerificacionAlcanzada
    /\ llamada.err = "none"
    /\ IsNaN(llamada.val)
    /\ ~Lt(llamada.val, UmbralVerificacion)

\* k, c, v_mp and v_MAXE of an entry of datos_procesados.
Cuatro(e) == <<e.k, e.c, e.v_mp, e.v_MAXE>>

\* Equations 3 to 6 applied to one sample.
CuatroDeKC(k, c) ==
    <<k, c, ecuacion_5_velocidad_mas_probable(k, c),
      ecuacion_6_velocidad_maxima_energia(k, c)>>

CuatroDeK(v_promedio, k) ==
    CuatroDeKC(k, Div(v_promedio, gamma(Add(One, Div(One, k)))))

CuatroDeMedia(v_promedio, sigma) ==
    The({CuatroDeK(v_promedio, k) :
            k \in {Pow(Div(sigma, v_promedio), ExpK)}})

CuatroDe(velocidades) ==
    The({CuatroDeMedia(v_promedio, sigma) :
            v_promedio \in {Mean(velocidades)},
            sigma \in {Std1(velocidades)}})

\* C17 as stated: the entry of a city holds the k, c, v_mp and v_MAXE of
\* the most recent sample procesar_datos_ciudad was given for that city.
C17_EntradaDeLaUltimaMuestraDada ==
    \A c \in Ciudades :
        datos_procesados[c].hay =>
            Cuatro(datos_procesados[c]) = CuatroDe(ultima[c].dada)

\* C17, amended: a city has an entry exactly when a call for it has
\* returned, and the entry holds the k, c, v_mp and v_MAXE of the most
\* recent sample for which the call returned, all four from that one
\* sample; a call that raises leaves the entry as it was.
C17_EntradaDeLaUltimaMuestraDevuelta ==
    \A c \in Ciudades :
        /\ datos_procesados[c].hay = ultima[c].devolvio
        /\ datos_procesados[c].hay =>
              Cuatro(datos_procesados[c]) = CuatroDe(ultima[c].devuelta)

\* C17 witness: a city was processed again with a different sample, its
\* latest call raised and the other city has an entry from another sample.
C17_Testigo ==
    \E c \in Ciudades, d \in Ciudades :
        /\ c # d
        /\ datos_procesados[c].hay /\ ultima[c].reemplazada
        /\ ultima[c].dada # ultima[c].devuelta
        /\ datos_procesados[d].hay
        /\ ultima[d].devuelta # ultima[c].devuelta

\* The step is a call of op.
Llama(op) == llamada.op = "none" /\ llamada'.op = op

\* C19: the order load, select, estimate, report is enforced:
\* seleccionar_ciudades before any data is loaded leaves
\* ciudades_seleccionadas as it was, procesar_ciudades with no selection
\* leaves parametros, distribuciones and resultados as they were, and
\* generar_reporte_completo returns None unless procesar_ciudades has
\* stored at least one result.
C19_OrdenDelPipeline ==
    [][/\ (Llama("seleccionar_ciudades") /\ ~datos.cargado)
            => ciudades_seleccionadas' = ciudades_seleccionadas
       /\ (Llama("procesar_ciudades") /\ Len(ciudades_seleccionadas) = 0)
            => /\ parametros' = parametros
               /\ distribuciones' = distribuciones
               /\ resultados' = resultados
       /\ (Llama("generar_reporte_completo") /\ ~producidos)
            => reporte'.devuelto /\ reporte'.ninguno]_vars

\* C19 witness: data are loaded, cities are selected and procesar_ciudades
\* has run, but it raised before it stored a result, and the report asked
\* for next is None.
C19_Testigo ==
    /\ llamada.op = "generar_reporte_completo"
    /\ reporte.devuelto /\ reporte.ninguno
    /\ datos.cargado /\ Len(ciudades_seleccionadas) > 0
    /\ \E c \in Columnas : parametros[c].hay
    /\ ~producidos

\* The columns of the data that are not the column of days.
Disponibles ==
    {datos.columnas[i] : i \in 1..Len(datos.columnas)} \ {"Dia"}

\* How many of the names asked for are city columns of the data.
PedidasValidas ==
    Cardinality({i \in 1..Len(detalle.ciudades) :
                    detalle.ciudades[i] \in Disponibles})

\* The j-th city column of the data, counting from the left.
EsLaColumna(c, j) ==
    \E i \in 1..Len(datos.columnas) :
        /\ datos.columnas[i] = c
        /\ Cardinality({h \in 1..i : datos.columnas[h] # "Dia"}) = j

\* C22: after seleccionar_ciudades on loaded data the selection has at most
\* 2 entries, every entry is a column of the data other than Dia (so a name
\* that is not a column is never selected), and when fewer than 2 of the
\* names asked for are valid the selection is the first two city columns.
C22_SeleccionValida ==
    (llamada.op = "seleccionar_ciudades" /\ datos.cargado) =>
        /\ Len(ciudades_seleccionadas) <= 2
        /\ \A i \in 1..Len(ciudades_seleccionadas) :
              ciudades_seleccionadas[i] \in Disponibles
        /\ PedidasValidas < 2 =>
              /\ Len(ciudades_seleccionadas)
                    = (IF Cardinality(Disponibles) < 2
                       THEN Cardinality(Disponibles) ELSE 2)
              /\ \A i \in 1..Len(ciudades_seleccionadas) :
                    EsLaColumna(ciudades_seleccionadas[i], i)

\* C22 witness: Dia and one city were asked for, and the first two city
\* columns were selected instead.
C22_Testigo ==
    /\ llamada.op = "seleccionar_ciudades" /\ datos.cargado
    /\ detalle.ciudades = <<"Dia", "Ciudad_Interior">>
    /\ Cardinality(Disponibles) = 3
    /\ Len(ciudades_seleccionadas) = 2

\* C25: parametros, distribuciones and resultados of an AnalisisVientoWeibull
\* object have the same city keys after any sequence of operations, also
\* after a procesar_ciudades that an exception aborted, and the distribution
\* stored for a key was built from the k and c stored for it.
C25_MapasAlineados ==
    \A c \in Columnas :
        /\ parametros[c].hay = distribuciones[c].existe
        /\ parametros[c].hay = resultados.de[c].hay
        /\ parametros[c].hay =>
              /\ distribuciones[c].k = parametros[c].k
              /\ distribuciones[c].lambda_param = parametros[c].c

\* C26: for all k > 0, c > 0 and every speed v, negative, zero or positive,
\* ecuacion_1_pdf(v, k, c) returns what DistribucionWeibull(k, c).pdf(v)
\* returns, and so 0 for v < 0.
C26_PdfDeLasEcuaciones ==
    (llamada.op = "ecuacion_1_pdf" /\ Valido(modelo)) =>
        /\ llamada.val = pdf(modelo, llamada.arg)
        /\ Lt(llamada.arg, Zero) => IsZero(llamada.val)

\* C29 as stated: percentil is the inverse of cdf: for every valid model,
\* cdf(percentil(p)) = p for every p in [0, 1) and percentil(cdf(v)) = v
\* for every v >= 0.
C29_PercentilInversaDeCdf ==
    /\ (llamada.op = "cdf_de_percentil" /\ Valido(modelo)
          /\ Geq(llamada.arg, Zero) /\ Lt(llamada.arg, One))
         => llamada.val = llamada.arg
    /\ (llamada.op = "percentil_de_cdf" /\ Valido(modelo)
          /\ Geq(llamada.arg, Zero))
         => llamada.val = llamada.arg

\* |a - b| <= Tolerancia, an absolute error of a few roundings of 1.
CercaAbs(a, b) == Leq(Abs(Sub(a, b)), Tolerancia)

\* C29, amended: for every valid model, cdf(percentil(p)) equals p up to
\* rounding for every p in [0, 1) whose percentile neither overflows nor
\* underflows; percentil(cdf(v)), for v >= 0, is +infinity once cdf(v) has
\* rounded to 1, is 0 when cdf(v) is 0, and otherwise, when finite and
\* positive, is a speed whose cdf equals cdf(v) up to rounding.
C29_InversaHastaElRedondeo ==
    /\ (llamada.op = "cdf_de_percentil" /\ Valido(modelo)
          /\ Geq(llamada.arg, Zero) /\ Lt(llamada.arg, One)
          /\ IsFinite(llamada.arg2)
          /\ (Gt(llamada.arg, Zero) => Gt(llamada.arg2, Zero)))
         => CercaAbs(llamada.val, llamada.arg)
    /\ (llamada.op = "percentil_de_cdf" /\ Valido(modelo)
          /\ Geq(llamada.arg, Zero))
         => /\ llamada.err = "none"
            /\ llamada.arg2 = One => llamada.val = PosInf
            /\ llamada.arg2 = Zero => IsZero(llamada.val)
            /\ (Gt(llamada.arg2, Zero) /\ Lt(llamada.arg2, One)
                  /\ IsFinite(llamada.val) /\ Gt(llamada.val, Zero))
                 => CercaAbs(cdf(modelo, llamada.val), llamada.arg2)

\* C29 witness: at a positive speed the cdf has rounded to 1 and the
\* percentile of it is +infinity, not the speed.
C29_Testigo ==
    /\ llamada.op = "percentil_de_cdf" /\ Valido(modelo)
    /\ Gt(llamada.arg, Zero) /\ IsFinite(llamada.arg)
    /\ llamada.arg2 = One
    /\ llamada.val = PosInf

\* ---------------------------------------------------------------------
\* AnalisisWeibullColombia: one municipality and all of them
\* ---------------------------------------------------------------------

\* Every variable of the numeric core, the sampler and the pipeline.
numerico ==
    <<modelo, llamada, estimacion, generador, caracteristicas, ecuaciones,
      pipeline>>

\* municipio in self.datos_originales.columns
EsColumna(self_datos, municipio) ==
    \E i \in DOMAIN self_datos.columnas : self_datos.columnas[i] = municipio

\* Series.dropna().values
dropna(serie) == SelectSeq(serie, LAMBDA x : ~IsNaN(x))

\* AnalisisWeibullColombia.ecuacion_3_parametro_forma
ecuacion_3_parametro_forma(v_promedio, sigma) ==
    Pow(Div(sigma, v_promedio), ExpK)

\* AnalisisWeibullColombia.ecuacion_4_parametro_escala
ecuacion_4_parametro_escala(v_promedio, k) ==
    Div(v_promedio, gamma(Add(One, Div(One, k))))

\* AnalisisWeibullColombia.ecuacion_6_velocidad_maxima_energia
colombia_ecuacion_6_velocidad_maxima_energia(k, c) ==
    Mul(c, Pow(Div(Add(k, Two), k), Div(One, k)))

\* The equations aplicar_ecuaciones_municipio evaluates between the
\* statistics and the dictionary of results.
EcuacionesAplicadas == {3, 4, 5, 6}

\* The dictionary of results, for the k of equation 3 and the c of
\* equation 4.
ResultadoMunicipio(n_datos, k, c) ==
    [presente |-> TRUE, n_datos |-> n_datos, evaluadas |-> EcuacionesAplicadas,
     k |-> k, c |-> c,
     v_mp |-> colombia_ecuacion_5_velocidad_mas_probable(k, c),
     v_MAXE |-> colombia_ecuacion_6_velocidad_maxima_energia(k, c)]

\* Equations 3 and 4 on the statistics.
ResultadoDeEstadisticas(n_datos, v_promedio, sigma) ==
    The({ResultadoMunicipio(n_datos, k,
                            ecuacion_4_parametro_escala(v_promedio, k)) :
            k \in {ecuacion_3_parametro_forma(v_promedio, sigma)}})

\* A call that raised: the map as it was and the equations evaluated.
MunicipioFallido(err, rm) == [err |-> err, rm |-> rm, evaluadas |-> {}]

\* The statistics, their report (sigma / v_promedio raises
\* ZeroDivisionError for a zero mean), the equations and the entry stored.
MunicipioAnalizado(rm, municipio, velocidades) ==
    The({IF IsZero(v_promedio) THEN MunicipioFallido("ZeroDivisionError", rm)
         ELSE [err |-> "none",
               rm |-> [rm EXCEPT ![municipio] =
                          ResultadoDeEstadisticas(Len(velocidades),
                                                  v_promedio,
                                                  Std1(velocidades))],
               evaluadas |-> EcuacionesAplicadas] :
            v_promedio \in {Mean(velocidades)}})

\* The records of the column that are not missing, and the guard on
\* their number.
MunicipioDeColumna(rm, municipio, velocidades) ==
    IF Len(velocidades) < MinRegistros THEN MunicipioFallido("ValueError", rm)
    ELSE MunicipioAnalizado(rm, municipio, velocidades)

\* AnalisisWeibullColombia.aplicar_ecuaciones_municipio on the object: rm
\* is self.resultados_municipios.
aplicar_ecuaciones_municipio_de(self_datos, rm, municipio) ==
    IF ~EsColumna(self_datos, municipio)
    THEN MunicipioFallido("ValueError", rm)
    ELSE MunicipioDeColumna(rm, municipio, dropna(self_datos.de[municipio]))

\* The loop of analizar_todos_municipios from the i-th municipality on;
\* tolerante is the try/except around the call.
RECURSIVE AnalizarDesde(_, _, _, _, _)
AnalizarDesde(self_datos, st, municipios, i, tolerante) ==
    IF i > Len(municipios) THEN st
    ELSE The({IF r.err # "none" /\ ~tolerante
              THEN [st EXCEPT !.err = r.err,
                              !.procesados = Append(@, municipios[i])]
              ELSE AnalizarDesde(self_datos,
                       [err |-> "none", rm |-> r.rm,
                        procesados |-> Append(st.procesados, municipios[i]),
                        exitosos |-> IF r.err = "none"
                                     THEN st.exitosos \cup {municipios[i]}
                                     ELSE st.exitosos],
                       municipios, i + 1, tolerante) :
                 r \in {aplicar_ecuaciones_municipio_de(self_datos, st.rm,
                                                        municipios[i])}})

\* [col for col in self.datos_originales.columns if col != 'Dia']
MunicipiosDe(self_datos) ==
    SelectSeq(self_datos.columnas, LAMBDA col : col # "Dia")

\* The loop without its try/except: the first error ends it.
analizar_sin_tolerancia(self_datos, rm) ==
    AnalizarDesde(self_datos,
                  [err |-> "none", rm |-> rm, procesados |-> <<>>,
                   exitosos |-> {}],
                  MunicipiosDe(self_datos), 1, FALSE)

\* AnalisisWeibullColombia.analizar_todos_municipios
analizar_todos_municipios(self_datos, rm) ==
    AnalizarDesde(self_datos,
                  [err |-> "none", rm |-> rm, procesados |-> <<>>,
                   exitosos |-> {}],
                  MunicipiosDe(self_datos), 1, TRUE)

\* The names aplicar_ecuaciones_municipio is called with.
MunicipioVals == NombresColumna \cup {"Desconocido"}

\* analizador.aplicar_ecuaciones_municipio(municipio)
AplicarEcuacionesDe(municipio) ==
    \E r \in {aplicar_ecuaciones_municipio_de(datos_originales,
                                              resultados_municipios,
                                              municipio)} :
       /\ resultados_municipios' = r.rm
       /\ analizado' = [op |-> "aplicar_ecuaciones_municipio",
                        municipio |-> municipio, err |-> r.err,
                        evaluadas |-> r.evaluadas,
                        antes |-> resultados_municipios,
                        procesados |-> <<municipio>>,
                        exitosos |-> IF r.err = "none" THEN {municipio}
                                     ELSE {}]
       /\ UNCHANGED <<numerico, datos_originales, importadores, interactivo,
                      arranque>>

\* analizador.analizar_todos_municipios()
AnalizarTodosMunicipios ==
    \E r \in {analizar_todos_municipios(datos_originales,
                                        resultados_municipios)} :
       /\ resultados_municipios' = r.rm
       /\ analizado' = [op |-> "analizar_todos_municipios",
                        municipio |-> "", err |-> r.err,
                        evaluadas |-> {},
                        antes |-> resultados_municipios,
                        procesados |-> r.procesados,
                        exitosos |-> r.exitosos]
       /\ UNCHANGED <<numerico, datos_originales, importadores, interactivo,
                      arranque>>

\* A fresh analyser on one of the sheets.
InitMunicipios ==
    /\ modelo = SinModelo
    /\ llamada = SinLlamada
    /\ estimacion = SinEstimacion
    /\ rng = 0
    /\ primera = SinPrimera
    /\ detalle = SinDetalle
    /\ caracteristicas = SinCaracteristicas
    /\ InitCiudades
    /\ InitPipeline
    /\ InitColombia(HojasColombia)
    /\ InitImportadores
    /\ InitInteractivo({Conteo(150, 365, 101)})
    /\ InitArranque

NextMunicipios ==
    \/ \E municipio \in MunicipioVals : AplicarEcuacionesDe(municipio)
    \/ AnalizarTodosMunicipios

SpecMunicipios == InitMunicipios /\ [][NextMunicipios]_vars

\* C24 aplicar_ecuaciones_municipio raises before any equation for a name
\* that is no column or a column of fewer than 30 records, leaving
\* resultados_municipios as it was, and stores an entry only when all six
\* equations were evaluated for the municipality.
C24_EntradaTrasSeisEcuaciones ==
    /\ analizado.op = "aplicar_ecuaciones_municipio"
       /\ (~EsColumna(datos_originales, analizado.municipio)
           \/ Len(dropna(datos_originales.de[analizado.municipio]))
                 < MinRegistros)
       => /\ analizado.err = "ValueError"
          /\ analizado.evaluadas = {}
          /\ resultados_municipios = analizado.antes
    /\ \A m \in NombresColumna :
          resultados_municipios[m].presente
             => resultados_municipios[m].evaluadas = 1..6


\* ---------------------------------------------------------------------
\* ImportadorDatosExcel and ImportadorSimple
\* ---------------------------------------------------------------------

\* datos[datos['Municipio'] == municipio]
FilasDe(tabla, municipio) ==
    SelectSeq(tabla, LAMBDA r : r.Municipio = municipio)

\* The rows from fecha_inicio on and up to fecha_fin, when given.
FiltroFechas(filas, fecha_inicio, fecha_fin) ==
    SelectSeq(filas,
              LAMBDA r : /\ fecha_inicio.hay => r.fecha >= fecha_inicio.dia
                         /\ fecha_fin.hay => r.fecha <= fecha_fin.dia)

\* datos_municipio['vel_viento (m/s)'].values
VelocidadesDe(filas) == [i \in 1..Len(filas) |-> filas[i].vel]

\* datos_municipio['fecha'].values
FechasDe(filas) == [i \in 1..Len(filas) |-> filas[i].fecha]

\* (velocidades >= vel_min) & (velocidades <= vel_max)
Mascara(velocidades, vel_min, vel_max) ==
    [i \in 1..Len(velocidades) |->
        Geq(velocidades[i], vel_min) /\ Leq(velocidades[i], vel_max)]

Marcados(mascara) == {i \in DOMAIN mascara : mascara[i]}

\* xs[mascara], numpy's indexing of an array by a boolean array.
Filtrar(xs, mascara) ==
    [j \in 1..Cardinality(Marcados(mascara)) |->
        xs[CHOOSE i \in Marcados(mascara) :
              Cardinality({x \in Marcados(mascara) : x <= i}) = j]]

\* The place of the i-th value among the sorted values.
Puesto(xs, i) ==
    Cardinality({x \in DOMAIN xs :
                    Lt(xs[x], xs[i]) \/ (xs[x] = xs[i] /\ x <= i)})

Ordenadas(xs) ==
    [j \in 1..Len(xs) |-> xs[CHOOSE i \in DOMAIN xs : Puesto(xs, i) = j]]

\* numpy's linear interpolation between two neighbours.
Lerp(a, b, t) ==
    IF Geq(t, FromRat(1, 2))
    THEN Sub(b, Mul(Sub(b, a), Sub(One, t)))
    ELSE Add(a, Mul(Sub(b, a), t))

\* np.percentile(xs, q) of a sorted array that is not empty.
PercentilOrdenado(o, q) ==
    Lerp(o[(q * (Len(o) - 1)) \div 100 + 1],
         o[IF (q * (Len(o) - 1)) \div 100 + 2 <= Len(o)
           THEN (q * (Len(o) - 1)) \div 100 + 2 ELSE Len(o)],
         FromRat((q * (Len(o) - 1)) % 100, 100))

\* The mask of the values within 1.5 IQR of the quartiles.
MascaraIQR(velocidades, Q1, Q3) ==
    Mascara(velocidades,
            Sub(Q1, Mul(FromRat(3, 2), Sub(Q3, Q1))),
            Add(Q3, Mul(FromRat(3, 2), Sub(Q3, Q1))))

\* mask_outliers; the quartiles of no values are nan where np.percentile
\* does not raise.
MascaraOutliers(velocidades) ==
    IF Len(velocidades) = 0 THEN <<>>
    ELSE The({MascaraIQR(velocidades, PercentilOrdenado(o, 25),
                         PercentilOrdenado(o, 75)) :
                 o \in {Ordenadas(velocidades)}})

\* What .min() of the dates is: a numpy.datetime64 for the ndarray that
\* .values gives, a pandas Timestamp for a Series.
Minimo(fechas, contenedor) ==
    [tipo |-> IF contenedor = "ndarray" THEN "datetime64" ELSE "Timestamp",
     dia |-> CHOOSE d \in {fechas[i] : i \in DOMAIN fechas} :
                \A i \in DOMAIN fechas : d <= fechas[i]]

\* x.strftime('%Y-%m-%d'): a Timestamp has the method, a numpy.datetime64
\* has no such attribute.
strftime(x) == IF x.tipo = "Timestamp" THEN "none" ELSE "AttributeError"

\* ImportadorDatosExcel._mostrar_resumen_municipio
mostrar_resumen_municipio(stats) == strftime(stats.fecha_inicio)

\* A call of an importer that raised before it had a result.
ExtraccionFallida(err, dp, n_original) ==
    [err |-> err, dp |-> dp, velocidades |-> <<>>, fechas |-> <<>>,
     n_datos |-> 0, n_filtrados |-> 0, tras_fechas |-> n_original]

\* The statistics, the result, the cache entry and then the summary.
ResultadoExcel(dp, municipio, velocidades, fechas, n_original) ==
    IF n_original = 0
    THEN ExtraccionFallida("ZeroDivisionError", dp, n_original)
    ELSE IF Len(fechas) = 0
    THEN ExtraccionFallida("ValueError", dp, n_original)
    ELSE [err |-> mostrar_resumen_municipio(
                     [fecha_inicio |-> Minimo(fechas, "ndarray")]),
          dp |-> [dp EXCEPT ![municipio] =
                     [presente |-> TRUE, n_datos |-> Len(velocidades),
                      n_filtrados |-> n_original - Len(velocidades),
                      velocidades |-> velocidades, fechas |-> fechas]],
          velocidades |-> velocidades, fechas |-> fechas,
          n_datos |-> Len(velocidades),
          n_filtrados |-> n_original - Len(velocidades),
          tras_fechas |-> n_original]

\* The filter of outliers, when asked for.
SinOutliers(dp, municipio, velocidades, fechas, n_original, kw) ==
    IF ~kw.filtrar_outliers
    THEN ResultadoExcel(dp, municipio, velocidades, fechas, n_original)
    ELSE IF Len(velocidades) = 0 /\ kw.indice_vacio_falla
    THEN ExtraccionFallida("IndexError", dp, n_original)
    ELSE The({ResultadoExcel(dp, municipio, Filtrar(velocidades, mascara),
                             Filtrar(fechas, mascara), n_original) :
                 mascara \in {MascaraOutliers(velocidades)}})

\* The filter by range of speeds.
EnRango(dp, municipio, velocidades, fechas, kw) ==
    The({SinOutliers(dp, municipio, Filtrar(velocidades, mascara),
                     Filtrar(fechas, mascara), Len(velocidades), kw) :
            mascara \in {Mascara(velocidades, kw.vel_min, kw.vel_max)}})

\* The filter by dates.
EntreFechas(dp, municipio, filas, kw) ==
    EnRango(dp, municipio, VelocidadesDe(filas), FechasDe(filas), kw)

\* ImportadorDatosExcel.extraer_datos_municipio; dp is
\* self.datos_procesados.
extraer_datos_municipio(tabla, dp, municipio, kw) ==
    IF Len(FilasDe(tabla, municipio)) = 0
    THEN ExtraccionFallida("ValueError", dp, 0)
    ELSE EntreFechas(dp, municipio,
                     FiltroFechas(FilasDe(tabla, municipio),
                                  kw.fecha_inicio, kw.fecha_fin), kw)

\* The statistics of the simple importer: np.min raises for no values,
\* the coefficient of variation divides Python floats.
ResultadoSimple(dp, filas, velocidades, n_original) ==
    IF Len(velocidades) = 0
    THEN ExtraccionFallida("ValueError", dp, n_original)
    ELSE IF strftime(Minimo(FechasDe(filas), "Series")) # "none"
    THEN ExtraccionFallida("AttributeError", dp, n_original)
    ELSE IF IsZero(Mean(velocidades))
    THEN ExtraccionFallida("ZeroDivisionError", dp, n_original)
    ELSE [err |-> "none", dp |-> dp, velocidades |-> velocidades,
          fechas |-> <<>>, n_datos |-> Len(velocidades),
          n_filtrados |-> n_original - Len(velocidades),
          tras_fechas |-> n_original]

\* The range filter of the simple importer.
FiltradasSimple(dp, filas, kw) ==
    The({ResultadoSimple(dp, filas,
                         Filtrar(velocidades,
                                 Mascara(velocidades, kw.vel_min,
                                         kw.vel_max)),
                         Len(velocidades)) :
            velocidades \in {VelocidadesDe(filas)}})

\* ImportadorSimple.extraer_velocidades_municipio; it keeps no cache and
\* dp is handed through.
extraer_velocidades_municipio(tabla, dp, municipio, kw) ==
    IF Len(FilasDe(tabla, municipio)) = 0
    THEN ExtraccionFallida("ValueError", dp, 0)
    ELSE FiltradasSimple(dp,
                         FiltroFechas(FilasDe(tabla, municipio),
                                      kw.fecha_inicio, kw.fecha_fin), kw)

\* The call the loop of an importer makes for one municipality.
ExtraerUno(importador, tabla, dp, municipio, kw) ==
    IF importador = "excel"
    THEN extraer_datos_municipio(tabla, dp, municipio, kw)
    ELSE extraer_velocidades_municipio(tabla, dp, municipio, kw)

\* The loop of extraer_multiples_municipios from the i-th municipality on;
\* tolerante is the try/except around the call.
RECURSIVE ExtraerDesde(_, _, _, _, _, _, _)
ExtraerDesde(importador, tabla, st, municipios, kw, i, tolerante) ==
    IF i > Len(municipios) THEN st
    ELSE The({IF r.err # "none" /\ ~tolerante
              THEN [st EXCEPT !.err = r.err, !.dp = r.dp,
                              !.procesados = Append(@, municipios[i])]
              ELSE ExtraerDesde(importador, tabla,
                       [err |-> "none", dp |-> r.dp,
                        procesados |-> Append(st.procesados, municipios[i]),
                        devueltos |-> IF r.err = "none"
                                      THEN st.devueltos \cup {municipios[i]}
                                      ELSE st.devueltos],
                       municipios, kw, i + 1, tolerante) :
                 r \in {ExtraerUno(importador, tabla, st.dp, municipios[i],
                                   kw)}})

\* The loop without its try/except: the first error ends it.
extraer_sin_tolerancia(importador, tabla, dp, municipios, kw) ==
    ExtraerDesde(importador, tabla,
                 [err |-> "none", dp |-> dp, procesados |-> <<>>,
                  devueltos |-> {}],
                 municipios, kw, 1, FALSE)

\* extraer_multiples_municipios of either importer
extraer_multiples_municipios(importador, tabla, dp, municipios, kw) ==
    ExtraerDesde(importador, tabla,
                 [err |-> "none", dp |-> dp, procesados |-> <<>>,
                  devueltos |-> {}],
                 municipios, kw, 1, TRUE)

\* The keyword arguments of extraer_velocidades_municipio left at their
\* defaults.
KwSimple ==
    [KwExcel EXCEPT !.vel_min = FromRat(1, 2), !.vel_max = FromInt(40)]

\* The keyword arguments the calls are made with: the defaults of each
\* importer, a narrow range without the filter of outliers, and dates
\* that leave no record, under either numpy.
KwVals ==
    {KwExcel, KwSimple,
     [KwExcel EXCEPT !.filtrar_outliers = FALSE, !.vel_max = FromInt(4),
                     !.fecha_inicio = Fecha(2)],
     [KwExcel EXCEPT !.fecha_inicio = Fecha(9)],
     [KwExcel EXCEPT !.fecha_fin = Fecha(3), !.vel_min = FromInt(4),
                     !.indice_vacio_falla = FALSE]}

\* The lists of municipalities the loops are called with.
ListasMunicipios ==
    {<<"Soledad", "Riohacha", "Barranquilla">>,
     <<"Riohacha", "Valledupar", "Barranquilla">>, <<>>}

\* A call of an importer for one municipality and what it left.
Extraida(op, municipio, kw, r) ==
    /\ datos_procesados_excel' = r.dp
    /\ extraccion' = [op |-> op, municipio |-> municipio, err |-> r.err,
                      kw |-> kw, velocidades |-> r.velocidades,
                      fechas |-> r.fechas, n_datos |-> r.n_datos,
                      n_filtrados |-> r.n_filtrados,
                      tras_fechas |-> r.tras_fechas,
                      antes |-> datos_procesados_excel,
                      pedidos |-> <<municipio>>,
                      procesados |-> <<municipio>>,
                      devueltos |-> IF r.err = "none" THEN {municipio}
                                    ELSE {}]
    /\ UNCHANGED <<numerico, colombia, registros, interactivo, arranque>>

\* importador.extraer_datos_municipio(municipio, **kw) on the Excel
\* importer
ExtraerDatosMunicipio(municipio, kw) ==
    Extraida("extraer_datos_municipio", municipio, kw,
             extraer_datos_municipio(registros, datos_procesados_excel,
                                     municipio, kw))

\* importador.extraer_velocidades_municipio(municipio, **kw) on the simple
\* importer
ExtraerVelocidadesMunicipio(municipio, kw) ==
    Extraida("extraer_velocidades_municipio", municipio, kw,
             extraer_velocidades_municipio(registros, datos_procesados_excel,
                                           municipio, kw))

\* importador.extraer_multiples_municipios(municipios, **kw) on the
\* importer named
ExtraerMultiplesMunicipios(importador, municipios, kw) ==
    \E r \in {extraer_multiples_municipios(importador, registros,
                                           datos_procesados_excel,
                                           municipios, kw)} :
       /\ datos_procesados_excel' = r.dp
       /\ extraccion' = [SinExtraccion EXCEPT
                            !.op = "extraer_multiples_municipios",
                            !.municipio = importador, !.err = r.err,
                            !.kw = kw, !.antes = datos_procesados_excel,
                            !.pedidos = municipios,
                            !.procesados = r.procesados,
                            !.devueltos = r.devueltos]
       /\ UNCHANGED <<numerico, colombia, registros, interactivo, arranque>>

NextImportadores ==
    \/ \E municipio \in MunicipiosTabla, kw \in KwVals :
          ExtraerDatosMunicipio(municipio, kw)
    \/ \E municipio \in MunicipiosTabla, kw \in KwVals :
          ExtraerVelocidadesMunicipio(municipio, kw)
    \/ \E importador \in {"excel", "simple"}, municipios \in ListasMunicipios,
          kw \in KwVals :
          ExtraerMultiplesMunicipios(importador, municipios, kw)

SpecImportadores == Init /\ [][NextImportadores]_vars


\* The three loops over municipalities, and single calls of the Colombia
\* analyser before them.
NextBucles ==
    \/ \E municipio \in {"Dia", "Riohacha"} : AplicarEcuacionesDe(municipio)
    \/ AnalizarTodosMunicipios
    \/ \E importador \in {"excel", "simple"}, municipios \in ListasMunicipios,
          kw \in {KwExcel, KwSimple} :
          ExtraerMultiplesMunicipios(importador, municipios, kw)

SpecBucles == InitMunicipios /\ [][NextBucles]_vars

\* C27 A call of extraer_datos_municipio of the Excel importer that
\* succeeds returns speeds within [vel_min, vel_max], as many dates as
\* speeds, n_datos of each, with n_datos + n_filtrados the number of
\* records of the municipality left by the date filter; and a call writes
\* the cache entry of the municipality only when it succeeds.
C27_ExtraccionYCache ==
    extraccion.op = "extraer_datos_municipio"
    => /\ extraccion.err = "none"
          => /\ \A i \in DOMAIN extraccion.velocidades :
                   /\ Geq(extraccion.velocidades[i], extraccion.kw.vel_min)
                   /\ Leq(extraccion.velocidades[i], extraccion.kw.vel_max)
             /\ Len(extraccion.velocidades) = extraccion.n_datos
             /\ Len(extraccion.fechas) = extraccion.n_datos
             /\ extraccion.n_datos + extraccion.n_filtrados
                   = Len(FiltroFechas(FilasDe(registros,
                                              extraccion.municipio),
                                      extraccion.kw.fecha_inicio,
                                      extraccion.kw.fecha_fin))
       /\ datos_procesados_excel # extraccion.antes
          => extraccion.err = "none"


\* The municipalities of a list whose single call succeeds.
Exitosos(importador, municipios, kw) ==
    {municipios[i] : i \in {j \in DOMAIN municipios :
        ExtraerUno(importador, registros, extraccion.antes, municipios[j],
                   kw).err = "none"}}

\* C21 The loops over municipalities tolerate partial failure: an error in
\* one municipality never ends analizar_todos_municipios or
\* extraer_multiples_municipios of either importer, every municipality of
\* the list is processed, and the map stored or returned holds exactly the
\* municipalities of the list whose processing succeeded.
C21_BuclesTolerantes ==
    /\ analizado.op = "analizar_todos_municipios"
       => /\ analizado.err = "none"
          /\ analizado.procesados = MunicipiosDe(datos_originales)
          /\ \A i \in DOMAIN analizado.procesados :
                resultados_municipios[analizado.procesados[i]].presente
                   <=> aplicar_ecuaciones_municipio_de(
                          datos_originales, analizado.antes,
                          analizado.procesados[i]).err = "none"
          /\ resultados_municipios["Dia"] = analizado.antes["Dia"]
    /\ extraccion.op = "extraer_multiples_municipios"
       => /\ extraccion.err = "none"
          /\ extraccion.procesados = extraccion.pedidos
          /\ extraccion.devueltos
                = Exitosos(extraccion.municipio, extraccion.pedidos,
                           extraccion.kw)

\* Both kinds of loop have gone past a municipality that failed and
\* processed a later one with success.
C21_Testigo ==
    /\ analizado.op = "analizar_todos_municipios"
    /\ \E i, j \in DOMAIN analizado.procesados :
          /\ i < j
          /\ analizado.procesados[i] \notin analizado.exitosos
          /\ resultados_municipios[analizado.procesados[j]].presente
    /\ extraccion.op = "extraer_multiples_municipios"
    /\ Len(extraccion.pedidos) >= 2
    /\ extraccion.pedidos[1] \notin extraccion.devueltos
    /\ extraccion.pedidos[2] \in extraccion.devueltos


\* ---------------------------------------------------------------------
\* AnalisisDetalladoWeibull: interactive selection of two municipalities
\* ---------------------------------------------------------------------

\* Fewest records, exclusive, of a municipality offered for selection.
UmbralRegistros == 100

\* The municipalities with more than 100 records, in sorted order.
DisponiblesEn(self_datos) ==
    SelectSeq(MunicipiosOrdenados,
              LAMBDA m : self_datos[m] > UmbralRegistros)

\* str.strip() of a line, for blanks.
strip(s) ==
    IF \A i \in DOMAIN s : s[i] = " " THEN <<>>
    ELSE SubSeq(s,
                CHOOSE i \in DOMAIN s :
                   s[i] # " " /\ \A j \in 1..(i - 1) : s[j] = " ",
                CHOOSE i \in DOMAIN s :
                   s[i] # " " /\ \A j \in (i + 1)..Len(s) : s[j] = " ")

Digitos == <<"0", "1", "2", "3", "4", "5", "6", "7", "8", "9">>

EsDigito(ch) == \E d \in DOMAIN Digitos : Digitos[d] = ch

ValorDigito(ch) == (CHOOSE d \in DOMAIN Digitos : Digitos[d] = ch) - 1

\* The number a sequence of digits writes.
RECURSIVE ValorDigitos(_)
ValorDigitos(ds) ==
    IF Len(ds) = 0 THEN 0
    ELSE 10 * ValorDigitos(SubSeq(ds, 1, Len(ds) - 1))
           + ValorDigito(ds[Len(ds)])

\* The digits of a line after its sign.
SinSigno(s) ==
    IF Len(s) > 0 /\ s[1] \in {"-", "+"} THEN Tail(s) ELSE s

\* int(s) of a line: an optional sign and digits, or ValueError.
int(s) ==
    IF Len(SinSigno(strip(s))) = 0
       \/ \E i \in DOMAIN SinSigno(strip(s)) :
             ~EsDigito(SinSigno(strip(s))[i])
    THEN [err |-> "ValueError", val |-> 0]
    ELSE [err |-> "none",
          val |-> IF strip(s)[1] = "-"
                  THEN 0 - ValorDigitos(SinSigno(strip(s)))
                  ELSE ValorDigitos(SinSigno(strip(s)))]

\* The pair returned when the user cancels.
SeleccionAutomatica == <<"Riohacha", "Valledupar">>

\* One pass of the first prompt loop, for what input() gave.
primer_municipio(st, entrada) ==
    IF entrada.evento = "KeyboardInterrupt"
    THEN [st EXCEPT !.pc = "retornado", !.devuelto = SeleccionAutomatica]
    ELSE IF entrada.evento # "texto"
    THEN [st EXCEPT !.pc = "error", !.err = entrada.evento]
    ELSE IF int(strip(entrada.texto)).err # "none" THEN st
    ELSE IF 0 <= int(strip(entrada.texto)).val - 1
            /\ int(strip(entrada.texto)).val - 1
                  < Len(st.municipios_disponibles)
    THEN [st EXCEPT !.pc = "segundo",
                    !.indice1 = int(strip(entrada.texto)).val - 1,
                    !.municipio_1 =
                        st.municipios_disponibles[
                           int(strip(entrada.texto)).val]]
    ELSE st

\* The second prompt loop without the test indice2 != indice1.
segundo_con_repetido(st, entrada) ==
    IF entrada.evento = "KeyboardInterrupt"
    THEN [st EXCEPT !.pc = "retornado", !.devuelto = SeleccionAutomatica]
    ELSE IF entrada.evento # "texto"
    THEN [st EXCEPT !.pc = "error", !.err = entrada.evento]
    ELSE IF int(strip(entrada.texto)).err # "none" THEN st
    ELSE IF 0 <= int(strip(entrada.texto)).val - 1
            /\ int(strip(entrada.texto)).val - 1
                  < Len(st.municipios_disponibles)
    THEN [st EXCEPT !.pc = "retornado",
                    !.devuelto =
                        <<st.municipio_1,
                          st.municipios_disponibles[
                             int(strip(entrada.texto)).val]>>]
    ELSE st

\* One pass of the second prompt loop, for what input() gave, and the
\* pair returned when it ends.
segundo_municipio(st, entrada) ==
    IF entrada.evento = "KeyboardInterrupt"
    THEN [st EXCEPT !.pc = "retornado", !.devuelto = SeleccionAutomatica]
    ELSE IF entrada.evento # "texto"
    THEN [st EXCEPT !.pc = "error", !.err = entrada.evento]
    ELSE IF int(strip(entrada.texto)).err # "none" THEN st
    ELSE IF 0 <= int(strip(entrada.texto)).val - 1
            /\ int(strip(entrada.texto)).val - 1
                  < Len(st.municipios_disponibles)
            /\ int(strip(entrada.texto)).val - 1 # st.indice1
    THEN [st EXCEPT !.pc = "retornado",
                    !.devuelto =
                        <<st.municipio_1,
                          st.municipios_disponibles[
                             int(strip(entrada.texto)).val]>>]
    ELSE st

\* The lines and exceptions input() gives.
Entradas ==
    {Texto(<<"1">>), Texto(<<"2">>), Texto(<<"3">>), Texto(<<"0">>),
     Texto(<<"4">>), Texto(<<"-", "1">>), Texto(<<" ", "2", " ">>),
     Texto(<<"1", "0">>), Texto(<<"a">>), Texto(<<"2", ".", "0">>),
     Texto(<<>>), Excepcion("KeyboardInterrupt"), Excepcion("EOFError")}

\* analizador.solicitar_municipios_usuario(), up to its first prompt
SolicitarMunicipiosUsuario ==
    /\ seleccion.pc \in {"inicio", "retornado", "error"}
    /\ seleccion' = [SinSeleccion EXCEPT
                        !.pc = "primero", !.desde = seleccion.pc,
                        !.municipios_disponibles =
                            DisponiblesEn(datos_completos)]
    /\ UNCHANGED <<numerico, colombia, importadores, datos_completos,
                   municipios_seleccionados, arranque>>

\* The user answers the first prompt.
ResponderPrimero(entrada) ==
    /\ seleccion.pc = "primero"
    /\ seleccion' = [primer_municipio(seleccion, entrada) EXCEPT
                        !.desde = "primero", !.entrada = entrada]
    /\ UNCHANGED <<numerico, colombia, importadores, datos_completos,
                   municipios_seleccionados, arranque>>

\* The user answers the second prompt; a selection completed is recorded
\* before the return.
ResponderSegundo(entrada) ==
    /\ seleccion.pc = "segundo"
    /\ \E st \in {segundo_municipio(seleccion, entrada)} :
          /\ seleccion' = [st EXCEPT !.desde = "segundo",
                                     !.entrada = entrada]
          /\ municipios_seleccionados' =
                IF st.pc = "retornado" /\ entrada.evento = "texto"
                THEN st.devuelto ELSE municipios_seleccionados
    /\ UNCHANGED <<numerico, colombia, importadores, datos_completos,
                   arranque>>

\* analizador.seleccionar_municipios_contrastantes(), the selection of
\* ejecutar_analisis_completo when it is not interactive or the
\* interactive one raised.
SeleccionarMunicipiosContrastantes ==
    /\ seleccion.pc \in {"inicio", "retornado", "error"}
    /\ municipios_seleccionados' = <<"Riohacha", "Valledupar">>
    /\ seleccion' = [SinSeleccion EXCEPT
                        !.pc = "retornado", !.desde = seleccion.pc,
                        !.devuelto = <<"Riohacha", "Valledupar">>]
    /\ UNCHANGED <<numerico, colombia, importadores, datos_completos,
                   arranque>>

\* Files with three, two, one and no municipality of more than 100
\* records.
Archivos ==
    {Conteo(150, 365, 101), Conteo(100, 101, 365), Conteo(0, 50, 500),
     Conteo(100, 100, 7)}

\* A fresh analyser on one of the files.
InitSeleccion ==
    /\ modelo = SinModelo
    /\ llamada = SinLlamada
    /\ estimacion = SinEstimacion
    /\ rng = 0
    /\ primera = SinPrimera
    /\ detalle = SinDetalle
    /\ caracteristicas = SinCaracteristicas
    /\ InitCiudades
    /\ InitPipeline
    /\ InitColombia({HojaEjemplo})
    /\ InitImportadores
    /\ InitInteractivo(Archivos)
    /\ InitArranque

NextSeleccion ==
    \/ SolicitarMunicipiosUsuario
    \/ \E entrada \in Entradas : ResponderPrimero(entrada)
    \/ \E entrada \in Entradas : ResponderSegundo(entrada)
    \/ SeleccionarMunicipiosContrastantes

SpecSeleccion == InitSeleccion /\ [][NextSeleccion]_vars

\* The entry is a number of the list shown.
EsOpcion(entrada) ==
    /\ entrada.evento = "texto"
    /\ int(entrada.texto).err = "none"
    /\ int(entrada.texto).val \in 1..Len(seleccion.municipios_disponibles)

\* C23 solicitar_municipios_usuario returns two different municipalities;
\* an entry that is no number, a number out of range or the first choice
\* again leaves the prompt where it was; and a selection completed by
\* input is of two municipalities with more than 100 records.
C23_DosMunicipiosDistintos ==
    /\ seleccion.pc = "retornado"
       => /\ Len(seleccion.devuelto) = 2
          /\ seleccion.devuelto[1] # seleccion.devuelto[2]
    /\ /\ seleccion.desde \in {"primero", "segundo"}
       /\ seleccion.entrada.evento = "texto"
       /\ \/ ~EsOpcion(seleccion.entrada)
          \/ /\ seleccion.desde = "segundo"
             /\ int(seleccion.entrada.texto).val - 1 = seleccion.indice1
       => seleccion.pc = seleccion.desde
    /\ /\ seleccion.pc = "retornado"
       /\ seleccion.desde = "segundo"
       /\ seleccion.entrada.evento = "texto"
       => \A i \in 1..2 :
             /\ seleccion.devuelto[i]
                   \in {"Barranquilla", "Riohacha", "Valledupar"}
             /\ datos_completos[seleccion.devuelto[i]] > UmbralRegistros

\* A selection completed by input at the second prompt, with a
\* municipality other than the first.
C23_Testigo ==
    /\ seleccion.pc = "retornado"
    /\ seleccion.desde = "segundo"
    /\ seleccion.entrada.evento = "texto"
    /\ seleccion.devuelto[1] = seleccion.municipio_1
    /\ seleccion.devuelto[2] # seleccion.municipio_1

\* C30 Whenever solicitar_municipios_usuario has returned a pair, also
\* after a cancellation at either prompt, municipios_seleccionados is that
\* pair.
C30_SeleccionRegistrada ==
    seleccion.pc = "retornado"
    => municipios_seleccionados = seleccion.devuelto


\* ---------------------------------------------------------------------
\* auto_weibull: interpreter, virtual environment, dependencies, analysis
\* ---------------------------------------------------------------------

comandos_python == <<"python", "python3", "py">>

dependencias ==
    <<"pandas", "numpy", "scipy", "matplotlib", "seaborn", "openpyxl">>

\* How a subprocess.run ends: return code 0, another return code (with
\* check=True, CalledProcessError), the command not found, another
\* OSError, or Ctrl-C while it runs.
Resultados ==
    {"0", "no_cero", "FileNotFoundError", "OSError", "KeyboardInterrupt"}

\* sys.exit(1) after the step named failed.
Salir(st, paso) == [st EXCEPT !.pc = "fin", !.fallo = paso, !.salida = 1]

\* An exception main() does not catch, as the handlers around main() end
\* the process: status 0 after the message for KeyboardInterrupt, status 1
\* for any other exception.
Propagar(st, paso, excepcion) ==
    IF excepcion = "KeyboardInterrupt"
    THEN [st EXCEPT !.pc = "fin", !.salida = 0]
    ELSE Salir(st, paso)

\* One pass of the loop of detectar_python, for how cmd --version ended.
detectar_python(st, resultado) ==
    IF resultado = "0"
    THEN [st EXCEPT !.pc = "crear", !.python_cmd = comandos_python[st.cmd],
                    !.pasos = Append(@, "python")]
    ELSE IF resultado \in {"OSError", "KeyboardInterrupt"}
    THEN Propagar(st, "python", resultado)
    ELSE IF st.cmd < Len(comandos_python)
    THEN [st EXCEPT !.cmd = @ + 1]
    ELSE Salir(st, "python")

\* crear_entorno_virtual, for whether .venv exists and how python -m venv
\* ended.
crear_entorno_virtual(st, existe, resultado) ==
    IF existe \/ resultado = "0"
    THEN [st EXCEPT !.pc = "obtener", !.venv = TRUE,
                    !.pasos = Append(@, "venv")]
    ELSE IF resultado = "no_cero" THEN Salir(st, "venv")
    ELSE Propagar(st, "venv", resultado)

\* obtener_python_venv and the test that the path exists.
obtener_python_venv(st, existe) ==
    IF existe
    THEN [st EXCEPT !.pc = "verificar", !.python_venv = TRUE,
                    !.pasos = Append(@, "python_venv")]
    ELSE Salir(st, "python_venv")

\* The dependency is in place: the next one, or the end of the loop.
Siguiente(st) ==
    IF st.dep < Len(dependencias) THEN [st EXCEPT !.dep = @ + 1]
    ELSE [st EXCEPT !.pc = "ejecutar", !.pasos = Append(@, "dependencias")]

\* The loop of verificar_dependencias that takes a failed installation
\* for a success.
verificar_sin_fallo(st, importa, instala) ==
    IF importa = "0"
    THEN Siguiente([st EXCEPT !.verificadas = @ \cup {dependencias[st.dep]}])
    ELSE IF importa # "no_cero" THEN Propagar(st, "dependencias", importa)
    ELSE IF instala \in {"0", "no_cero"}
    THEN Siguiente([st EXCEPT !.instaladas =
                       IF instala = "0" THEN @ \cup {dependencias[st.dep]}
                       ELSE @])
    ELSE Propagar(st, "dependencias", instala)

\* One pass of the loop of verificar_dependencias, for how the import and
\* the pip install ended, and main()'s exit when it returns False.
verificar_dependencias(st, importa, instala) ==
    IF importa = "0"
    THEN Siguiente([st EXCEPT !.verificadas = @ \cup {dependencias[st.dep]}])
    ELSE IF importa # "no_cero" THEN Propagar(st, "dependencias", importa)
    ELSE IF instala = "0"
    THEN Siguiente([st EXCEPT !.instaladas = @ \cup {dependencias[st.dep]}])
    ELSE IF instala = "no_cero" THEN Salir(st, "dependencias")
    ELSE Propagar(st, "dependencias", instala)

\* ejecutar_analisis and the end of main(), for whether the script exists
\* and how it ended: a return code other than 0 and Ctrl-C make it return
\* False; an OSError of the launch is not caught by it.
ejecutar_analisis(st, existe, resultado) ==
    IF ~existe THEN Salir(st, "script")
    ELSE IF resultado = "0"
    THEN [st EXCEPT !.pc = "fin", !.lanzado = TRUE, !.analisis = resultado,
                    !.salida = 0, !.pasos = Append(@, "analisis")]
    ELSE IF resultado \in {"no_cero", "KeyboardInterrupt"}
    THEN [st EXCEPT !.pc = "fin", !.lanzado = TRUE, !.analisis = resultado,
                    !.fallo = "analisis", !.salida = 1,
                    !.pasos = Append(@, "analisis")]
    ELSE Propagar(st, "lanzamiento", resultado)

\* A step of the process and what it leaves.
Paso(pc, st) ==
    /\ arranque.pc = pc
    /\ arranque' = st
    /\ UNCHANGED <<numerico, colombia, importadores, interactivo>>

DetectarPython(resultado) ==
    Paso("detectar", detectar_python(arranque, resultado))

CrearEntornoVirtual(existe, resultado) ==
    Paso("crear", crear_entorno_virtual(arranque, existe, resultado))

ObtenerPythonVenv(existe) ==
    Paso("obtener", obtener_python_venv(arranque, existe))

VerificarDependencias(importa, instala) ==
    Paso("verificar", verificar_dependencias(arranque, importa, instala))

EjecutarAnalisis(existe, resultado) ==
    Paso("ejecutar", ejecutar_analisis(arranque, existe, resultado))

NextArranque ==
    \/ \E resultado \in Resultados : DetectarPython(resultado)
    \/ \E existe \in BOOLEAN, resultado \in Resultados :
          CrearEntornoVirtual(existe, resultado)
    \/ \E existe \in BOOLEAN : ObtenerPythonVenv(existe)
    \/ \E importa \in Resultados, instala \in Resultados :
          VerificarDependencias(importa, instala)
    \/ \E existe \in BOOLEAN, resultado \in Resultados :
          EjecutarAnalisis(existe, resultado)

SpecArranque == Init /\ [][NextArranque]_vars

\* C28 The analysis is launched only after the interpreter was detected,
\* then the virtual environment exists, then its interpreter is present,
\* then every dependency was verified or installed; a step that fails
\* ends the process with status 1 and no analysis launched, and an
\* analysis that fails ends it with status 1.
C28_OrdenDelArranque ==
    /\ arranque.lanzado \/ arranque.pc = "ejecutar"
       => /\ SubSeq(arranque.pasos, 1, 4)
                = <<"python", "venv", "python_venv", "dependencias">>
          /\ arranque.python_cmd # ""
          /\ arranque.venv
          /\ arranque.python_venv
          /\ arranque.verificadas \cup arranque.instaladas
                = {dependencias[d] : d \in DOMAIN dependencias}
    /\ arranque.fallo # "none"
       => /\ arranque.pc = "fin"
          /\ arranque.salida = 1
          /\ arranque.fallo # "analisis" => ~arranque.lanzado
    /\ arranque.lanzado /\ arranque.analisis # "0" => arranque.salida = 1

\* The analysis was launched after at least one dependency had to be
\* installed.
C28_Testigo ==
    /\ arranque.lanzado
    /\ arranque.instaladas # {}
    /\ arranque.verificadas # {}

====
